---- MODULE Spec2Model ----
(***************************************************************************)
(* A model of the finops-portal billing pipeline: the CSV upload handler   *)
(* (normalise, validate, deduplicate, bulk insert with retry), the         *)
(* SpendRecord table with its unique index on dedupe_key, the spend       *)
(* aggregation handler, withRetry taken step by step, and the endpoints    *)
(* behind requireRoles (upload and the savings ideas).                     *)
(*                                                                         *)
(* Conventions.  A JavaScript value that may be undefined is a sequence of *)
(* length 0 (undefined) or 1 (the value).  A Date that may be "Invalid     *)
(* Date" and a number that may be NaN are modelled the same way.  Instants *)
(* are integers counted in ticks, TicksPerDay ticks to the day; money is   *)
(* counted in cents.  Error texts are sequences of words, and              *)
(* String.includes on them is containment of a word.                       *)
(***************************************************************************)
EXTENDS Integers, Sequences, FiniteSets, TLC

\* ------------------------------------------------------------------ bounds

MaxRows == 2
MaxUploads == 2
MaxNameParts == 2
MaxSpendRows == 3
TicksPerDay == 2
MaxTopLeftOut == 2
MaxRetriesArg == 4
MaxIdeas == 2
MaxRedirects == 5
MaxSignals == 2
MaxSubs == 3

\* -------------------------------------------------------- program constants

DefaultMaxRetries == 3
DefaultInitialDelay == 500

\* ------------------------------------------------------------ JS primitives

Undefined == <<>>
Some(v) == <<v>>

\* JS truthiness of a string-or-undefined value: undefined and "" are falsy.
Truthy(v) == v # <<>> /\ v[1] # ""

\* a || b
Or(a, b) == IF Truthy(a) THEN a ELSE b

\* `${v}` in a template literal
ToStr(v) == IF v = <<>> THEN "undefined" ELSE v[1]

\* row.col of a parsed CSV row (a record of the columns the row holds)
Get(row, col) == IF col \in DOMAIN row THEN Some(row[col]) ELSE Undefined

RECURSIVE SumSeq(_)
SumSeq(s) == IF s = <<>> THEN 0 ELSE Head(s) + SumSeq(Tail(s))

\* ----------------------------------------------------------- string tables

\* new Date(s): the instant of a date string, or Invalid Date.  Days are
\* counted from 2024-01-01; a date-only string is midnight of that day.
ParseDate(s) ==
  CASE s = "2024-03-31" -> Some(90 * TicksPerDay)
    [] s = "2024-03-24" -> Some(83 * TicksPerDay)
    [] s = "2024-03-24T12:00:00Z" -> Some(83 * TicksPerDay + TicksPerDay \div 2)
    [] s = "2024-03-01" -> Some(60 * TicksPerDay)
    [] s = "2024-04-02" -> Some(92 * TicksPerDay)
    [] OTHER -> <<>>

\* parseFloat(s), in cents, or NaN
ParseFloat(s) ==
  CASE s = "5" -> Some(500)
    [] s = "5.0" -> Some(500)
    [] s = "100.50" -> Some(10050)
    [] s = "50.25" -> Some(5025)
    [] s = "0" -> Some(0)
    [] s = "-3" -> Some(-300)
    [] OTHER -> <<>>

\* ---------------------------------------------------------------- inputs

\* Parsed CSV rows (Papa.parse, header: true): a record of the columns the
\* row holds.  RowA and RowB differ in team and env and have one dedupe key;
\* RowC has an empty cost; RowD has a date that is no date; RowE uses the
\* GCP column names and leaves team and env out.
RowA == [date |-> "2024-03-24", service |-> "EC2", cost_usd |-> "5",
         team |-> "a_b", env |-> "c"]
RowB == [date |-> "2024-03-24", service |-> "EC2", cost_usd |-> "5",
         team |-> "a", env |-> "b_c"]
RowC == [date |-> "2024-03-24", service |-> "S3", cost_usd |-> "",
         team |-> "a", account_id |-> "123"]
RowD == [date |-> "not-a-date", service |-> "EC2", cost |-> "5"]
RowE == [usage_date |-> "2024-03-31", sku_description |-> "S3",
         cost_amount |-> "50.25", project_id |-> "p1"]

Rows == {RowA, RowB, RowC, RowD, RowE}

SeqsUpTo(S, n) == UNION {[1..k -> S] : k \in 0..n}

\* formData.get("file"): no file, or a file with a name and its parsed rows
NoFile == [present |-> FALSE]
File(n, rs) == [present |-> TRUE, name |-> n, rows |-> rs]
Files ==
  {File(<<"b","i","l","l">>, rs) : rs \in SeqsUpTo(Rows, MaxRows)}
    \cup {File(<<"a","w","s","-","G","c","P">>, rs) :
             rs \in SeqsUpTo(Rows, MaxRows - 1)}

\* upload requests, numbered in the order they arrive
Uploaders == 1..MaxUploads

\* ------------------------------------------------ upload: cloud detection

\* one character of String.prototype.toLowerCase
LowerChar(c) ==
  CASE c = "A" -> "a" [] c = "W" -> "w" [] c = "S" -> "s"
    [] c = "G" -> "g" [] c = "C" -> "c" [] c = "P" -> "p"
    [] OTHER -> c

ToLowerCase(s) == [i \in 1..Len(s) |-> LowerChar(s[i])]

\* s.includes(sub)
Includes(s, sub) ==
  \E i \in 0..(Len(s) - Len(sub)) :
     \A j \in 1..Len(sub) : s[i + j] = sub[j]

DetectCloudAwsFirst(name) ==
  LET fileName == ToLowerCase(name)
  IN  IF Includes(fileName, <<"a","w","s">>) THEN "aws"
      ELSE IF Includes(fileName, <<"g","c","p">>) THEN "gcp"
      ELSE "aws"

\* route.ts 55-59
DetectCloud(name) ==
  LET fileName == ToLowerCase(name)
  IN  IF Includes(fileName, <<"g","c","p">>) THEN "gcp"
      ELSE IF Includes(fileName, <<"a","w","s">>) THEN "aws"
      ELSE "aws"

\* ------------------------------------- upload: normalise, validate, dedupe

\* route.ts 84-91: the six raw fields of a row
Normalize(row) ==
  [date |-> Or(Or(Get(row, "date"), Get(row, "usage_start_time")),
               Get(row, "usage_date")),
   account_or_project |->
       Or(Or(Get(row, "account_id"), Get(row, "project_id")),
          Get(row, "billing_account_id")),
   service |-> Or(Or(Get(row, "service"), Get(row, "service_description")),
                  Get(row, "sku_description")),
   team |-> Or(Or(Get(row, "team"), Get(row, "owner")),
               Get(row, "department")),
   env |-> Or(Or(Get(row, "env"), Get(row, "environment")),
              Get(row, "stage")),
   cost_usd |-> Or(Or(Get(row, "cost_usd"), Get(row, "cost")),
                   Get(row, "cost_amount"))]

ValidAny(n) == Truthy(n.date) \/ Truthy(n.service) \/ Truthy(n.cost_usd)

\* route.ts 94: the row is kept when date, service and cost are all truthy
Valid(n) == Truthy(n.date) /\ Truthy(n.service) /\ Truthy(n.cost_usd)

\* route.ts 98
DedupeKey(n, cloud) ==
  ToStr(n.date) \o "_" \o cloud \o "_" \o ToStr(n.account_or_project)
    \o "_" \o ToStr(n.service) \o "_" \o ToStr(n.team)
    \o "_" \o ToStr(n.env) \o "_" \o ToStr(n.cost_usd)

\* the record with the raw team, env and account in place of the defaults
MakeRecordRaw(n, cloud, key, i) ==
  [date |-> IF n.date = <<>> THEN <<>> ELSE ParseDate(n.date[1]),
   cloud |-> cloud,
   account_or_project |-> ToStr(n.account_or_project),
   service |-> ToStr(n.service),
   team |-> ToStr(n.team),
   env |-> ToStr(n.env),
   cost_usd |-> IF n.cost_usd = <<>> THEN <<>>
                ELSE ParseFloat(n.cost_usd[1]),
   dedupe_key |-> key,
   src |-> i,
   raw |-> n]

\* route.ts 103-112; src is the index of the row in the file and raw its six
\* raw fields (history, not sent to the store's columns).
MakeRecord(n, cloud, key, i) ==
  [date |-> IF n.date = <<>> THEN <<>> ELSE ParseDate(n.date[1]),
   cloud |-> cloud,
   account_or_project |->
       IF Truthy(n.account_or_project) THEN n.account_or_project[1]
       ELSE "unknown",
   service |-> ToStr(n.service),
   team |-> IF Truthy(n.team) THEN n.team[1] ELSE "unassigned",
   env |-> IF Truthy(n.env) THEN n.env[1] ELSE "prod",
   cost_usd |-> IF n.cost_usd = <<>> THEN <<>>
                ELSE ParseFloat(n.cost_usd[1]),
   dedupe_key |-> key,
   src |-> i,
   raw |-> n]

InBatchDuplicateNever(seen, key) == FALSE

\* route.ts 99: seen.has(key)
InBatchDuplicate(seen, key) == key \in seen

\* route.ts 70-113: the loop over the parsed rows, from row i on.  acc holds
\* seen and validRows.
RECURSIVE ProcessRows(_, _, _, _)
ProcessRows(rows, cloud, i, acc) ==
  IF i > Len(rows) THEN acc
  ELSE
    LET n == Normalize(rows[i])
        key == DedupeKey(n, cloud)
    IN  IF ~Valid(n)
          THEN ProcessRows(rows, cloud, i + 1, acc)
        ELSE IF InBatchDuplicate(acc.seen, key)
          THEN ProcessRows(rows, cloud, i + 1, acc)
        ELSE ProcessRows(rows, cloud, i + 1,
                         [acc EXCEPT
                            !.seen = @ \cup {key},
                            !.validRows =
                               Append(@, MakeRecord(n, cloud, key, i))])

ValidRowsOf(rows, cloud) ==
  ProcessRows(rows, cloud, 1, [seen |-> {}, validRows |-> <<>>])

\* ------------------------------------------------------------------ state

VARIABLES
  store,        \* the SpendRecord table: a set of records
  up,           \* per upload request: where its handler is, and its data
  get,          \* the spend request: where its handler is, and its data
  isConnected,  \* prisma.ts 51: the connection flag of the module
  wr,           \* a call of withRetry: where it is, and what it did
  rq,           \* a request to a role-protected endpoint
  ideas,        \* the SavingIdea table: a set of records
  browser,      \* the browser: its session cookie and the page it is on
  proc,         \* the server process: the signal handlers and the exit
  connectionCheckPromise,  \* prisma.ts 52: the cached health check
  sub           \* the concurrent withRetry calls of one dashboard request

vars == <<store, up, get, isConnected, wr, rq, ideas, browser, proc,
         connectionCheckPromise, sub>>

\* ------------------------------------------------------- the SpendRecord table

ConflictsNever(st, row) == FALSE

\* the unique index SpendRecord_dedupe_key_key
Conflicts(st, row) == \E r \in st : r.dedupe_key = row.dedupe_key

\* A row as stored: the columns, the generated id, and (history) the request
\* that inserted it.
Stored(row, tag, attempt, i) ==
  [id |-> <<tag, attempt, i>>,
   by |-> tag,
   date |-> row.date[1],
   cloud |-> row.cloud,
   account_or_project |-> row.account_or_project,
   service |-> row.service,
   team |-> row.team,
   env |-> row.env,
   cost_usd |-> row.cost_usd[1],
   dedupe_key |-> row.dedupe_key,
   raw |-> row.raw]

\* createMany({data, skipDuplicates: true}) is one INSERT ... ON CONFLICT DO
\* NOTHING: rows are taken in order, and a row whose key is taken is skipped.
RECURSIVE InsertRows(_, _, _, _, _, _)
InsertRows(st, data, i, tag, attempt, count) ==
  IF i > Len(data) THEN [store |-> st, count |-> count]
  ELSE IF Conflicts(st, data[i])
    THEN InsertRows(st, data, i + 1, tag, attempt, count)
  ELSE InsertRows(st \cup {Stored(data[i], tag, attempt, i)}, data, i + 1,
                  tag, attempt, count + 1)

CreateManyReplacing(st, data, tag, attempt) ==
  InsertRows({}, data, 1, tag, attempt, 0)

CreateMany(st, data, tag, attempt) == InsertRows(st, data, 1, tag, attempt, 0)

\* Prisma rejects an Invalid Date or a NaN before it sends the statement.
DataInvalid(data) ==
  \E i \in 1..Len(data) : data[i].date = <<>> \/ data[i].cost_usd = <<>>

\* ------------------------------------------------------------------ errors

ErrValidation ==
  [name |-> "PrismaClientValidationError",
   message |-> <<"Invalid", "value", "for", "argument">>]
ErrClosed ==
  [name |-> "PrismaClientKnownRequestError",
   message |-> <<"Server", "has", "closed", "the", "connection">>]
ErrQuery ==
  [name |-> "PrismaClientUnknownRequestError",
   message |-> <<"canceling", "statement", "due", "to", "timeout">>]
ErrRefused ==
  [name |-> "Error",
   message |-> <<"connect", "ECONNREFUSED", "127.0.0.1:5432">>]

\* what the database may answer instead of a result
DbErrors == {ErrClosed, ErrQuery}
\* errors that may be reported after the statement has been committed
LostReplyErrors == {ErrClosed}

NoError == [name |-> "", message |-> <<>>]

\* String(error) of an Error: name, then the message
ErrorString(e) == <<e.name>> \o e.message

\* prisma.ts 131-142
IsConnectionError(e) ==
  \/ Includes(e.message, <<"connection">>)
  \/ Includes(e.message, <<"ECONNREFUSED">>)
  \/ Includes(e.message, <<"10054">>)
  \/ Includes(e.message, <<"forcibly", "closed">>)
  \/ Includes(e.message, <<"Closed">>)
  \/ Includes(ErrorString(e), <<"P1001">>)
  \/ Includes(ErrorString(e), <<"P1017">>)

\* ------------------------------------------------------- upload responses

UploadErrorBodyLeaky(e) == e.message

\* route.ts 141: the body of the 500 response
UploadErrorBody(e) == <<"Upload", "failed">>

Resp400(text) == [status |-> 400, error |-> text]
Resp500(e) == [status |-> 500, error |-> UploadErrorBody(e)]

SkippedOfValid(nRows, nValid, count) == nValid - count

\* route.ts 137
SkippedOf(nRows, nValid, count) == nRows - count

\* route.ts 134-138
Resp200(cloud, nRows, nValid, count) ==
  [status |-> 200, cloud |-> cloud, inserted |-> count,
   skipped |-> SkippedOf(nRows, nValid, count)]

NoResp == [status |-> 0]

\* ------------------------------------------------------------ spend handler

\* the spend request before it arrives
NoGet == [pc |-> "new"]

\* no call of withRetry yet; no request to a protected endpoint yet
NoCall == [pc |-> "idle"]
NoRq == [pc |-> "new"]
\* no page requested yet, no cookie
NoBrowser == [cookie |-> Undefined, page |-> "", pc |-> "idle"]
\* no signal received: the process runs, no handler has been called
NoSignal == [exited |-> FALSE, code |-> 0, by |-> 0, handlers |-> <<>>]
\* prisma.ts 52: connectionCheckPromise = null
Null == [pending |-> FALSE]
\* no sub-query issued
NoSubs == <<>>

\* ----------------------------------------------------------- upload handler

\* A request that has not arrived yet.
NotArrived ==
  [pc |-> "new", file |-> NoFile, cloud |-> "aws",
   validRows |-> <<>>,
   attempt |-> 0, rejected |-> 0,
   thrown |-> NoError, resp |-> NoResp,
   peers |-> {}, preNone |-> TRUE]

InFlight(v) == up[v].pc = "insert"

\* the raw rows (with their cloud) the store holds
StoredRaw(st) == {<<r.raw, r.cloud>> : r \in st}

NoRowsNever(rows) == FALSE

\* route.ts 50 and 116: !rows.length
NoRows(rows) == Len(rows) = 0

\* route.ts 36-121: from the request to the call of withRetry.  The handler
\* awaits nothing that touches shared state on the way, so it is one step.
\* peers (history) are the requests in flight at the same time; preNone
\* (history) says that the store held none of the file's rows.
UploadBeginFrom(u, files) ==
  /\ up[u].pc = "new"
  /\ IF u = 1 THEN TRUE ELSE up[u - 1].pc # "new"
  /\ \E f \in files :
       LET cloud == IF f.present THEN DetectCloud(f.name) ELSE "aws"
           acc == IF f.present THEN ValidRowsOf(f.rows, cloud)
                  ELSE ValidRowsOf(<<>>, cloud)
           base == [NotArrived EXCEPT !.file = f]
           mine ==
             IF ~f.present
               THEN [base EXCEPT !.pc = "done",
                        !.resp = Resp400(<<"No", "file", "uploaded">>)]
             ELSE IF NoRows(f.rows)
               THEN [base EXCEPT !.pc = "done",
                        !.resp = Resp400(<<"Empty", "CSV", "file">>)]
             ELSE IF NoRows(acc.validRows)
               THEN [base EXCEPT !.pc = "done", !.cloud = cloud,
                        !.resp = Resp400(<<"No", "valid", "rows", "found",
                                           "after", "parsing">>)]
             ELSE [base EXCEPT !.pc = "insert", !.cloud = cloud,
                      !.validRows = acc.validRows,
                      !.attempt = 1,
                      !.peers = {v \in Uploaders : InFlight(v)},
                      !.preNone =
                         \A i \in 1..Len(f.rows) :
                            <<Normalize(f.rows[i]), cloud>>
                               \notin StoredRaw(store)]
       IN  up' = [v \in Uploaders |->
                    IF v = u THEN mine
                    ELSE IF InFlight(v) /\ mine.pc = "insert"
                      THEN [up[v] EXCEPT !.peers = @ \cup {u}]
                    ELSE up[v]]
  /\ UNCHANGED <<store, get, isConnected, wr, rq, ideas, browser, proc,
               connectionCheckPromise, sub>>

UploadBegin(u) == UploadBeginFrom(u, Files \cup {NoFile})

\* prisma.ts 120-126, route.ts 126-138: an attempt whose createMany returns
UploadInsertOk(u) ==
  /\ up[u].pc = "insert"
  /\ ~DataInvalid(up[u].validRows)
  /\ LET data == up[u].validRows
         res == CreateMany(store, data, u, up[u].attempt)
     IN  /\ store' = res.store
         /\ up' = [up EXCEPT
              ![u].pc = "done",
              ![u].rejected =
                 Cardinality({i \in 1..Len(data) : Conflicts(store, data[i])}),
              ![u].resp = Resp200(up[u].cloud, Len(up[u].file.rows),
                                  Len(data), res.count)]
  /\ UNCHANGED <<get, isConnected, wr, rq, ideas, browser, proc,
               connectionCheckPromise, sub>>

\* prisma.ts 127-173, route.ts 139-141: what withRetry and the handler do
\* with an error e thrown by the operation.  A connection error before the
\* last attempt is followed by $disconnect, the wait, $connect and the next
\* attempt; any other error leaves withRetry and the handler answers 500.
\* attempt counts the calls of the operation.
Caught(u, e) ==
  IF IsConnectionError(e) /\ up[u].attempt < DefaultMaxRetries
    THEN up' = [up EXCEPT ![u].attempt = @ + 1]
    ELSE up' = [up EXCEPT ![u].pc = "done", ![u].thrown = e,
                          ![u].resp = Resp500(e)]

\* an attempt whose data Prisma rejects
UploadInsertInvalid(u) ==
  /\ up[u].pc = "insert"
  /\ DataInvalid(up[u].validRows)
  /\ Caught(u, ErrValidation)
  /\ UNCHANGED <<store, get, isConnected, wr, rq, ideas, browser, proc,
               connectionCheckPromise, sub>>

\* an attempt the database answers with an error, the statement not done
UploadInsertFails(u) ==
  /\ up[u].pc = "insert"
  /\ ~DataInvalid(up[u].validRows)
  /\ \E e \in DbErrors : Caught(u, e)
  /\ UNCHANGED <<store, get, isConnected, wr, rq, ideas, browser, proc,
               connectionCheckPromise, sub>>

\* an attempt whose statement is committed and whose reply is lost
UploadInsertLost(u) ==
  /\ up[u].pc = "insert"
  /\ ~DataInvalid(up[u].validRows)
  /\ store' = CreateMany(store, up[u].validRows, u, up[u].attempt).store
  /\ \E e \in LostReplyErrors : Caught(u, e)
  /\ UNCHANGED <<get, isConnected, wr, rq, ideas, browser, proc,
               connectionCheckPromise, sub>>

Init ==
  /\ store = {}
  /\ up = [u \in Uploaders |-> NotArrived]
  /\ get = NoGet
  /\ isConnected = FALSE
  /\ wr = NoCall
  /\ rq = NoRq
  /\ ideas = {}
  /\ browser = NoBrowser
  /\ proc = NoSignal
  /\ connectionCheckPromise = Null
  /\ sub = NoSubs

Next ==
  \E u \in Uploaders :
    \/ UploadBegin(u)
    \/ UploadInsertOk(u)
    \/ UploadInsertInvalid(u)
    \/ UploadInsertFails(u)
    \/ UploadInsertLost(u)

Spec == Init /\ [][Next]_vars

\* ------------------------------------------------------------ spend handler

\* parseInt(s): the integer the string starts with, or NaN
ParseInt(s) ==
  CASE s = "7" -> Some(7)
    [] s = "30" -> Some(30)
    [] s = "90" -> Some(90)
    [] s = "14" -> Some(14)
    [] s = "7days" -> Some(7)
    [] OTHER -> <<>>

\* the rank of a string in the order of Array.prototype.sort (UTF-16 units)
StrRank(s) ==
  CASE s = "a" -> 1
    [] s = "a_b" -> 2
    [] s = "b" -> 3
    [] s = "b_c" -> 4
    [] s = "c" -> 5
    [] s = "dev" -> 6
    [] s = "prod" -> 7
    [] s = "unassigned" -> 8
    [] OTHER -> 0

\* a set of integers as the ascending sequence of its elements
RECURSIVE SortAsc(_)
SortAsc(S) ==
  IF S = {} THEN <<>>
  ELSE LET m == CHOOSE x \in S : \A y \in S : x <= y
       IN  <<m>> \o SortAsc(S \ {m})

\* a set of strings sorted as Array.prototype.sort does
RECURSIVE SortStrings(_)
SortStrings(S) ==
  IF S = {} THEN <<>>
  ELSE LET m == CHOOSE x \in S : \A y \in S : StrRank(x) <= StrRank(y)
       IN  <<m>> \o SortStrings(S \ {m})

\* _sum: { cost_usd } over a set of records
RECURSIVE SumCost(_)
SumCost(S) ==
  IF S = {} THEN 0
  ELSE LET r == CHOOSE x \in S : TRUE
       IN  r.cost_usd + SumCost(S \ {r})

\* route.ts 38-41: the query parameters as read by the handler
RangeOf(params) == ParseInt(Or(params.range, Some("30"))[1])
FilterOf(v) == Or(v, Undefined)

\* route.ts 44-59: the where clause; its dates are Invalid Date when the
\* range is NaN
WhereOf(params, now) ==
  LET range == RangeOf(params)
  IN  [gte |-> IF range = <<>> THEN <<>>
               ELSE Some(now - range[1] * TicksPerDay),
       lte |-> Some(now),
       cloud |-> FilterOf(params.cloud),
       team |-> FilterOf(params.team),
       env |-> FilterOf(params.env)]

WhereInvalid(w) == w.gte = <<>> \/ w.lte = <<>>

\* date: { gte: startDate, lte: endDate }
InWindow(r, w) == r.date >= w.gte[1] /\ r.date <= w.lte[1]

MatchesWindowOnly(r, w) == InWindow(r, w)

\* route.ts 54-59: a record satisfies the where clause
Matches(r, w) ==
  /\ InWindow(r, w)
  /\ Truthy(w.cloud) => r.cloud = w.cloud[1]
  /\ Truthy(w.team) => r.team = w.team[1]
  /\ Truthy(w.env) => r.env = w.env[1]

\* route.ts 70-75: groupBy date, _sum cost_usd, orderBy date asc
GroupByDate(st, w) ==
  LET m == {r \in st : Matches(r, w)}
      dates == SortAsc({r.date : r \in m})
  IN  [i \in 1..Len(dates) |->
         [date |-> dates[i],
          sum |-> SumCost({r \in m : r.date = dates[i]})]]

TopLimit == 5

\* the groups in an order in which the sums never decrease
RECURSIVE AscOrders(_, _)
AscOrders(S, tot) ==
  IF S = {} THEN {<<>>}
  ELSE UNION {{<<sv>> \o rest : rest \in AscOrders(S \ {sv}, tot)} :
                sv \in {x \in S : \A y \in S : tot[x] <= tot[y]}}

\* the orders the database may return groups in under orderBy sum desc: the
\* sums never increase, groups of equal sums come in any order
RECURSIVE DescOrders(_, _)
DescOrders(S, tot) ==
  IF S = {} THEN {<<>>}
  ELSE UNION {{<<sv>> \o rest : rest \in DescOrders(S \ {sv}, tot)} :
                sv \in {x \in S : \A y \in S : tot[x] >= tot[y]}}

\* route.ts 80-86: groupBy service, _sum cost_usd, orderBy the sum desc,
\* take 5.  The order of services with equal sums is the database's choice:
\* the result is any of these.
GroupByService(st, w) ==
  LET m == {r \in st : Matches(r, w)}
      services == {r.service : r \in m}
      total == [sv \in services |-> SumCost({r \in m : r.service = sv})]
      n == Cardinality(services)
      k == IF n < TopLimit THEN n ELSE TopLimit
  IN  {[i \in 1..k |-> [service |-> f[i], sum |-> total[f[i]]]] :
         f \in DescOrders(services, total)}

\* the teams of the records that satisfy the whole where clause
AvailableTeamsFiltered(st, w) ==
  SortStrings({t \in {r.team : r \in {x \in st : Matches(x, w)}} : t # ""})

\* route.ts 91-95 and 112: distinct team in the window, non-empty, sorted
AvailableTeams(st, w) ==
  SortStrings({t \in {r.team : r \in {x \in st : InWindow(x, w)}} : t # ""})

\* route.ts 100-104 and 113
AvailableEnvs(st, w) ==
  SortStrings({e \in {r.env : r \in {x \in st : InWindow(x, w)}} : e # ""})

Queries == {"daily", "topServices", "teams", "envs"}

\* the instants a request may come at: midnight and noon of 2024-03-31
Nows == {90 * TicksPerDay, 90 * TicksPerDay + TicksPerDay \div 2}

SpendParams ==
  [range : {Undefined, Some(""), Some("7"), Some("30"), Some("14"),
            Some("abc")},
   cloud : {Undefined, Some(""), Some("gcp")},
   team : {Undefined, Some("a")},
   env : {Undefined, Some("dev")}]

\* route.ts 36-59: the parameters are read and the where clause is built
SpendBeginFrom(paramSet) ==
  /\ get.pc = "new"
  /\ \E params \in paramSet, now \in Nows :
       get' = [pc |-> "query", params |-> params, now |-> now,
               where |-> WhereOf(params, now),
               pending |-> Queries,
               daily |-> <<>>, topServices |-> <<>>,
               teams |-> <<>>, envs |-> <<>>,
               resp |-> NoResp]
  /\ UNCHANGED <<store, up, isConnected, wr, rq, ideas, browser, proc,
               connectionCheckPromise, sub>>

SpendBegin == SpendBeginFrom(SpendParams)

\* route.ts 67-106: one of the four queries returns from withRetry
SpendQueryOk(q) ==
  /\ get.pc = "query"
  /\ q \in get.pending
  /\ ~WhereInvalid(get.where)
  /\ \/ /\ q = "daily"
        /\ get' = [get EXCEPT !.pending = @ \ {q},
                     !.daily = GroupByDate(store, get.where)]
     \/ /\ q = "topServices"
        /\ \E top \in GroupByService(store, get.where) :
             get' = [get EXCEPT !.pending = @ \ {q}, !.topServices = top]
     \/ /\ q = "teams"
        /\ get' = [get EXCEPT !.pending = @ \ {q},
                     !.teams = AvailableTeams(store, get.where)]
     \/ /\ q = "envs"
        /\ get' = [get EXCEPT !.pending = @ \ {q},
                     !.envs = AvailableEnvs(store, get.where)]
  /\ UNCHANGED <<store, up, isConnected, wr, rq, ideas, browser, proc,
               connectionCheckPromise, sub>>

\* route.ts 115-118: a query throws out of withRetry (Prisma rejects an
\* Invalid Date; the database answers with an error that is not retried, or
\* with a connection error on the last attempt); Promise.all rejects and the
\* handler answers 500.
SpendQueryThrows(q) ==
  /\ get.pc = "query"
  /\ q \in get.pending
  /\ \E e \in (IF WhereInvalid(get.where) THEN {ErrValidation}
               ELSE DbErrors) :
       get' = [get EXCEPT !.pc = "done",
                 !.resp = [status |-> 500,
                           error |-> <<"Failed", "to", "load",
                                       "dashboard", "data">>]]
  /\ UNCHANGED <<store, up, isConnected, wr, rq, ideas, browser, proc,
               connectionCheckPromise, sub>>

\* route.ts 109-114: all four queries have returned
SpendRespond ==
  /\ get.pc = "query"
  /\ get.pending = {}
  /\ get' = [get EXCEPT !.pc = "done",
               !.resp = [status |-> 200, daily |-> get.daily,
                         topServices |-> get.topServices,
                         availableTeams |-> get.teams,
                         availableEnvs |-> get.envs]]
  /\ UNCHANGED <<store, up, isConnected, wr, rq, ideas, browser, proc,
               connectionCheckPromise, sub>>

\* Rows for the stores the spend handler is run on: two records of one
\* instant, a record at midnight and one at noon of the day seven days
\* before 2024-03-31, one thirty days before, one in the future.
SpendRows ==
  << [date |-> "2024-03-31", service |-> "EC2", cost_usd |-> "5",
      team |-> "a"],
     [date |-> "2024-03-31", service |-> "S3", cost_usd |-> "50.25",
      team |-> "b", env |-> "dev"],
     [date |-> "2024-03-24", service |-> "EC2", cost_usd |-> "100.50",
      team |-> "a", env |-> "dev"],
     [usage_start_time |-> "2024-03-24T12:00:00Z",
      service_description |-> "EC2", cost |-> "5", owner |-> "a"],
     [date |-> "2024-03-01", service |-> "S3", cost_usd |-> "5"],
     [date |-> "2024-04-02", service |-> "EC2", cost_usd |-> "5",
      team |-> "a"] >>

\* the rows of seq whose index is in idx, in order
RECURSIVE Pick(_, _, _)
Pick(seq, idx, i) ==
  IF i > Len(seq) THEN <<>>
  ELSE (IF i \in idx THEN <<seq[i]>> ELSE <<>>) \o Pick(seq, idx, i + 1)

\* the store after an upload of rows under a file name that returns at its
\* first attempt
StoreAfter(st, name, rows, tag) ==
  LET data == ValidRowsOf(rows, DetectCloud(name)).validRows
  IN  IF DataInvalid(data) THEN st ELSE CreateMany(st, data, tag, 1).store

\* stores left by an upload of an AWS file and of a GCP file
SpendStores ==
  {StoreAfter(StoreAfter({}, <<"b","i","l","l">>,
                         Pick(SpendRows, idx, 1), 1),
              <<"g","c","p">>, gcpRows, 2) :
     idx \in {x \in SUBSET (1..Len(SpendRows)) :
                Cardinality(x) <= MaxSpendRows},
     gcpRows \in {<<>>, <<SpendRows[1]>>, <<SpendRows[3]>>}}

InitSpend ==
  /\ store \in SpendStores
  /\ up = [u \in Uploaders |-> NotArrived]
  /\ get = NoGet
  /\ isConnected = FALSE
  /\ wr = NoCall
  /\ rq = NoRq
  /\ ideas = {}
  /\ browser = NoBrowser
  /\ proc = NoSignal
  /\ connectionCheckPromise = Null
  /\ sub = NoSubs

NextSpend ==
  \/ SpendBegin
  \/ \E q \in Queries : SpendQueryOk(q) \/ SpendQueryThrows(q)
  \/ SpendRespond

SpecSpend == InitSpend /\ [][NextSpend]_vars

\* Rows of seven services for the stores the top-services query is run on:
\* more services than the query returns, services of equal sums, a service
\* with two records.
TopRows ==
  << [date |-> "2024-03-31", service |-> "EC2", cost_usd |-> "5",
      team |-> "a", env |-> "dev"],
     [date |-> "2024-03-24", service |-> "EC2", cost_usd |-> "50.25",
      team |-> "a", env |-> "dev"],
     [date |-> "2024-03-31", service |-> "S3", cost_usd |-> "50.25",
      team |-> "a", env |-> "dev"],
     [date |-> "2024-03-31", service |-> "RDS", cost_usd |-> "100.50",
      team |-> "a", env |-> "dev"],
     [date |-> "2024-03-31", service |-> "Lambda", cost_usd |-> "5",
      team |-> "a"],
     [date |-> "2024-03-31", service |-> "EKS", cost_usd |-> "5.0",
      team |-> "a", env |-> "dev"],
     [date |-> "2024-03-31", service |-> "SQS", cost_usd |-> "5",
      team |-> "a", env |-> "dev"],
     [date |-> "2024-03-31", service |-> "SNS", cost_usd |-> "50.25",
      team |-> "b", env |-> "dev"] >>

\* stores left by an upload of all of these rows but at most MaxTopLeftOut
TopStores ==
  {StoreAfter({}, <<"b","i","l","l">>, Pick(TopRows, idx, 1), 1) :
     idx \in {x \in SUBSET (1..Len(TopRows)) :
                Cardinality(x) >= Len(TopRows) - MaxTopLeftOut}}

InitTop ==
  /\ store \in TopStores
  /\ up = [u \in Uploaders |-> NotArrived]
  /\ get = NoGet
  /\ isConnected = FALSE
  /\ wr = NoCall
  /\ rq = NoRq
  /\ ideas = {}
  /\ browser = NoBrowser
  /\ proc = NoSignal
  /\ connectionCheckPromise = Null
  /\ sub = NoSubs

SpecTop == InitTop /\ [][NextSpend]_vars

\* -------------------------------------------- cloud detection on its own

\* File names put together from fragments, so that "gcp" and "aws" occur in
\* either case, alone, together, and across the joint of two fragments.
NameParts ==
  { <<"a","w","s">>, <<"A","W","s">>, <<"g","c","p">>, <<"G","c","P">>,
    <<"g","c">>, <<"p">>, <<"a","w">>, <<"b","i","l","l">> }

RECURSIVE Flatten(_)
Flatten(parts) ==
  IF parts = <<>> THEN <<>> ELSE Head(parts) \o Flatten(Tail(parts))

DetectNames == {Flatten(ps) : ps \in SeqsUpTo(NameParts, MaxNameParts)}

DetectFiles ==
  {File(n, rs) : n \in DetectNames,
                 rs \in {<<RowA>>, <<RowA, RowE>>, <<RowC, RowE>>}}

\* one upload of a file with any of the names
NextDetect ==
  \/ UploadBeginFrom(1, DetectFiles)
  \/ UploadInsertOk(1)

SpecDetect == Init /\ [][NextDetect]_vars

\* ------------------------------------------------- withRetry, step by step

\* Math.pow(2, n)
RECURSIVE Pow2(_)
Pow2(n) == IF n = 0 THEN 1 ELSE 2 * Pow2(n - 1)

BackoffLinear(initialDelay, attempt) == initialDelay * attempt

\* prisma.ts 152: the delay after the failed attempt
Backoff(initialDelay, attempt) == initialDelay * Pow2(attempt - 1)

ShouldRetryAny(e, attempt, maxRetries) == attempt < maxRetries

ShouldRetryOnceMore(e, attempt, maxRetries) ==
  IsConnectionError(e) /\ attempt <= maxRetries

\* prisma.ts 145-150: the catch block goes on to reconnect and retry
ShouldRetry(e, attempt, maxRetries) ==
  IsConnectionError(e) /\ attempt < maxRetries

\* what the operation passed to withRetry may throw
RetryErrors == {ErrValidation, ErrQuery, ErrClosed, ErrRefused}

\* the arguments of a call: maxRetries given or left to its default
RetryArgs == (0..MaxRetriesArg) \cup {DefaultMaxRetries}

Running == wr.pc \in {"ensure", "operation", "reconnect"}
Finished == wr.pc \in {"returned", "thrown"}

\* prisma.ts 112-120: withRetry is called (when no call is running); the
\* loop is not entered when maxRetries < 1, and lastError, still undefined,
\* is thrown (line 178)
WithRetryCall ==
  /\ ~Running
  /\ \E m \in RetryArgs :
       wr' = [pc |-> IF 1 <= m THEN "ensure" ELSE "thrown",
              maxRetries |-> m,
              initialDelay |-> DefaultInitialDelay,
              attempt |-> 1,
              log |-> <<>>,
              lastError |-> NoError,
              thrown |-> NoError,
              result |-> 0]
  /\ UNCHANGED <<store, up, get, isConnected, rq, ideas, browser, proc,
               connectionCheckPromise, sub>>

\* prisma.ts 123, 92-96, 60-84: ensureConnection; when the flag is down the
\* health check SELECT 1 runs and sets the flag to its outcome; it never
\* throws
EnsureConnection ==
  /\ wr.pc = "ensure"
  /\ IF isConnected
       THEN /\ wr' = [wr EXCEPT !.pc = "operation"]
            /\ UNCHANGED isConnected
       ELSE \E ok \in BOOLEAN :
              /\ isConnected' = ok
              /\ wr' = [wr EXCEPT !.pc = "operation",
                          !.log = Append(@, [ev |-> "check", ok |-> ok])]
  /\ UNCHANGED <<store, up, get, rq, ideas, browser, proc,
               connectionCheckPromise, sub>>

\* prisma.ts 126: the operation returns and withRetry returns its result
OperationReturns ==
  /\ wr.pc = "operation"
  /\ wr' = [wr EXCEPT !.pc = "returned",
               !.result = wr.attempt,
               !.log = Append(@, [ev |-> "operation", attempt |-> wr.attempt,
                                  err |-> NoError])]
  /\ UNCHANGED <<store, up, get, isConnected, rq, ideas, browser, proc,
               connectionCheckPromise, sub>>

\* prisma.ts 127-173: the operation throws e
OperationThrows ==
  /\ wr.pc = "operation"
  /\ \E e \in RetryErrors :
       /\ isConnected' = IF IsConnectionError(e) THEN FALSE ELSE isConnected
       /\ wr' = [wr EXCEPT
                   !.lastError = e,
                   !.log = Append(@, [ev |-> "operation",
                                      attempt |-> wr.attempt, err |-> e]),
                   !.pc = IF ShouldRetry(e, wr.attempt, wr.maxRetries)
                            THEN "reconnect" ELSE "thrown",
                   !.thrown = IF ShouldRetry(e, wr.attempt, wr.maxRetries)
                                THEN NoError ELSE e]
  /\ UNCHANGED <<store, up, get, rq, ideas, browser, proc,
               connectionCheckPromise, sub>>

\* prisma.ts 152-168: $disconnect, the wait, $connect; an error of
\* $disconnect or $connect is caught and the loop goes on
Reconnect ==
  /\ wr.pc = "reconnect"
  /\ LET delay == Backoff(wr.initialDelay, wr.attempt)
         wait == [ev |-> "wait", attempt |-> wr.attempt, ms |-> delay]
     IN  \/ /\ wr' = [wr EXCEPT !.pc = "ensure", !.attempt = @ + 1,
                         !.log = Append(@, [ev |-> "disconnect",
                                            ok |-> FALSE])]
            /\ UNCHANGED isConnected
         \/ /\ wr' = [wr EXCEPT !.pc = "ensure", !.attempt = @ + 1,
                         !.log = @ \o <<[ev |-> "disconnect", ok |-> TRUE],
                                        wait,
                                        [ev |-> "connect", ok |-> FALSE]>>]
            /\ UNCHANGED isConnected
         \/ /\ wr' = [wr EXCEPT !.pc = "ensure", !.attempt = @ + 1,
                         !.log = @ \o <<[ev |-> "disconnect", ok |-> TRUE],
                                        wait,
                                        [ev |-> "connect", ok |-> TRUE]>>]
            /\ isConnected' = TRUE
  /\ UNCHANGED <<store, up, get, rq, ideas, browser, proc,
               connectionCheckPromise, sub>>

RetryStep ==
  \/ EnsureConnection
  \/ OperationReturns
  \/ OperationThrows
  \/ Reconnect

NextRetry == WithRetryCall \/ RetryStep

SpecRetry == Init /\ [][NextRetry]_vars

\* every awaited promise of a running call settles
SpecRetryLive == Init /\ [][NextRetry]_vars /\ WF_vars(RetryStep)

\* ----------------------------------- the sub-queries of one spend request

\* spend/route.ts 67-106: the sub-queries of the request that are followed
SubQueries ==
  {<<"daily", "topServices", "teams", "envs">>[i] : i \in 1..MaxSubs}

\* spend/route.ts 67-106: a call of withRetry as Promise.all starts it
NewSub ==
  [pc |-> "start", attempt |-> 1, cut |-> FALSE, got |-> "none",
   on |-> "", cause |-> "", thrown |-> NoError]

\* what the operation of a sub-query may throw
SubErrors == {ErrQuery, ErrClosed}

CachedNever(p) == FALSE

\* prisma.ts 62: if (connectionCheckPromise)
Cached(p) == p.pending

\* the sub-queries whose health check SELECT 1 is in flight
Checking == {q \in DOMAIN sub : sub[q].pc = "checking"}

\* prisma.ts 123, 92-96, 60-67: ensureConnection of sub-query q.  With the
\* flag up the operation is called; with the flag down the call waits for
\* the cached health check, or starts one and caches it
SubEnsure(q) ==
  /\ sub[q].pc = "start"
  /\ IF isConnected
       THEN /\ sub' = [sub EXCEPT ![q].pc = "operation"]
            /\ UNCHANGED connectionCheckPromise
     ELSE IF Cached(connectionCheckPromise)
       THEN /\ sub' = [sub EXCEPT ![q].pc = "joined",
                                  ![q].on = connectionCheckPromise.owner]
            /\ UNCHANGED connectionCheckPromise
     ELSE /\ sub' = [sub EXCEPT ![q].pc = "checking"]
          /\ connectionCheckPromise' = [pending |-> TRUE, owner |-> q]
  /\ UNCHANGED <<store, up, get, isConnected, wr, rq, ideas, browser, proc>>

\* prisma.ts 67-81, 126: the health check that q started settles; the flag
\* takes its outcome, the cache is cleared, and q and the calls that wait
\* for this check go on to their operation
CheckSettles(q) ==
  /\ sub[q].pc = "checking"
  /\ \E ok \in BOOLEAN :
       /\ isConnected' = ok
       /\ sub' = [r \in DOMAIN sub |->
                    IF r = q \/ (sub[r].pc = "joined" /\ sub[r].on = q)
                      THEN [sub[r] EXCEPT !.pc = "operation", !.cut = FALSE,
                              !.on = "",
                              !.got = IF ok THEN "up" ELSE "down"]
                    ELSE sub[r]]
  /\ connectionCheckPromise' = Null
  /\ UNCHANGED <<store, up, get, wr, rq, ideas, browser, proc>>

\* prisma.ts 126: the operation of q returns, and so does withRetry
SubReturns(q) ==
  /\ sub[q].pc = "operation"
  /\ sub' = [sub EXCEPT ![q].pc = "returned", ![q].got = "none",
                        ![q].cut = FALSE]
  /\ UNCHANGED <<store, up, get, isConnected, wr, rq, ideas, browser, proc,
               connectionCheckPromise>>

\* prisma.ts 127-173: the operation of q throws e.  cause (history) tells
\* whether the database failed or the client was disconnected under the
\* query by another call; the latter can only happen to a query that was
\* in flight when $disconnect was called
SubThrows(q) ==
  /\ sub[q].pc = "operation"
  /\ \E e \in SubErrors, cause \in {"database", "peer"} :
       /\ cause = "peer" => sub[q].cut /\ e = ErrClosed
       /\ isConnected' = IF IsConnectionError(e) THEN FALSE ELSE isConnected
       /\ sub' = [sub EXCEPT
                    ![q].got = "none",
                    ![q].cut = FALSE,
                    ![q].cause = IF ShouldRetry(e, sub[q].attempt,
                                                DefaultMaxRetries)
                                   THEN "" ELSE cause,
                    ![q].pc = IF ShouldRetry(e, sub[q].attempt,
                                             DefaultMaxRetries)
                                THEN "disconnect" ELSE "thrown",
                    ![q].thrown = IF ShouldRetry(e, sub[q].attempt,
                                                 DefaultMaxRetries)
                                    THEN NoError ELSE e]
  /\ UNCHANGED <<store, up, get, wr, rq, ideas, browser, proc,
               connectionCheckPromise>>

\* prisma.ts 159: $disconnect of the one client, called by q.  When it
\* returns, the operations of the other calls that are in flight have lost
\* their connection (cut); when it throws, q goes to its next attempt
SubDisconnect(q) ==
  /\ sub[q].pc = "disconnect"
  /\ \/ sub' = [r \in DOMAIN sub |->
                  IF r = q THEN [sub[r] EXCEPT !.pc = "connect"]
                  ELSE IF sub[r].pc = "operation"
                    THEN [sub[r] EXCEPT !.cut = TRUE]
                  ELSE sub[r]]
     \/ sub' = [sub EXCEPT ![q].pc = "start", ![q].attempt = @ + 1,
                           ![q].cut = FALSE]
  /\ UNCHANGED <<store, up, get, isConnected, wr, rq, ideas, browser, proc,
               connectionCheckPromise>>

\* prisma.ts 160-168: after the wait $connect returns (the flag is put up)
\* or throws; q goes to its next attempt
SubConnect(q) ==
  /\ sub[q].pc = "connect"
  /\ \E ok \in BOOLEAN :
       isConnected' = IF ok THEN TRUE ELSE isConnected
  /\ sub' = [sub EXCEPT ![q].pc = "start", ![q].attempt = @ + 1,
                        ![q].cut = FALSE]
  /\ UNCHANGED <<store, up, get, wr, rq, ideas, browser, proc,
               connectionCheckPromise>>

\* spend/route.ts 67: Promise.all has started the four calls; the flag is
\* as earlier requests left it
InitSubs ==
  /\ store = {}
  /\ up = [u \in Uploaders |-> NotArrived]
  /\ get = NoGet
  /\ isConnected \in BOOLEAN
  /\ wr = NoCall
  /\ rq = NoRq
  /\ ideas = {}
  /\ browser = NoBrowser
  /\ proc = NoSignal
  /\ connectionCheckPromise = Null
  /\ sub = [q \in SubQueries |-> NewSub]

NextSubs ==
  \E q \in SubQueries :
    \/ SubEnsure(q)
    \/ CheckSettles(q)
    \/ SubReturns(q)
    \/ SubThrows(q)
    \/ SubDisconnect(q)
    \/ SubConnect(q)

SpecSubs == InitSubs /\ [][NextSubs]_vars

\* ------------------------------------------------------ graceful shutdown

\* prisma.ts 205, 209: the signals a handler is registered for
Signals == {"SIGINT", "SIGTERM"}

Alive == ~proc.exited

\* prisma.ts 205-212: a signal arrives and its handler calls
\* gracefulShutdown, which calls prisma.$disconnect() (line 196)
Signal ==
  /\ Alive
  /\ Len(proc.handlers) < MaxSignals
  /\ \E s \in Signals :
       proc' = [proc EXCEPT !.handlers =
                  Append(@, [signal |-> s, pc |-> "disconnect",
                             ok |-> FALSE])]
  /\ UNCHANGED <<store, up, get, isConnected, wr, rq, ideas, browser,
               connectionCheckPromise, sub>>

\* prisma.ts 194-201: $disconnect of handler h returns (the flag is put
\* down) or throws (the error is logged)
GracefulShutdown(h) ==
  /\ Alive
  /\ h \in DOMAIN proc.handlers
  /\ proc.handlers[h].pc = "disconnect"
  /\ \E ok \in BOOLEAN :
       /\ proc' = [proc EXCEPT !.handlers[h].pc = "settled",
                               !.handlers[h].ok = ok]
       /\ isConnected' = IF ok THEN FALSE ELSE isConnected
  /\ UNCHANGED <<store, up, get, wr, rq, ideas, browser,
               connectionCheckPromise, sub>>

ExitReadyAtOnce(h) == TRUE

\* prisma.ts 206-207, 210-211: await gracefulShutdown() has returned
ExitReady(h) == proc.handlers[h].pc = "settled"

\* prisma.ts 207, 211: process.exit(0)
Exit(h) ==
  /\ Alive
  /\ h \in DOMAIN proc.handlers
  /\ ExitReady(h)
  /\ proc' = [proc EXCEPT !.exited = TRUE, !.code = 0, !.by = h]
  /\ UNCHANGED <<store, up, get, isConnected, wr, rq, ideas, browser,
               connectionCheckPromise, sub>>

\* the steps of the handlers
ShutdownStep ==
  \E h \in 1..MaxSignals : GracefulShutdown(h) \/ Exit(h)

\* the process serves a call of withRetry (with the default arguments)
\* until it exits
NextShutdown ==
  \/ Alive /\ wr = NoCall /\ WithRetryCall
       /\ wr'.maxRetries = DefaultMaxRetries
  \/ Alive /\ RetryStep
  \/ Signal
  \/ \E h \in 1..MaxSignals : GracefulShutdown(h)
  \/ \E h \in 1..MaxSignals : Exit(h)

\* every awaited $disconnect settles, and a handler that can go on does
SpecShutdown ==
  Init /\ [][NextShutdown]_vars /\ WF_vars(ShutdownStep)

\* ------------------------------------------- role-protected endpoints

\* the User table as seeded: id, role
Users ==
  {[id |-> "u1", role |-> "ADMIN"],
   [id |-> "u2", role |-> "ANALYST"],
   [id |-> "u3", role |-> "VIEWER"]}

\* the value of the session cookie of a request
Cookies == {Undefined, Some(""), Some("u1"), Some("u2"), Some("u3"),
            Some("u9")}

\* the endpoints that call requireRoles([ADMIN, ANALYST])
Protected == {"upload", "savingsPOST", "savingsPUT", "savingsDELETE"}
AllowedRoles == {"ADMIN", "ANALYST"}

\* auth.ts 76-82: findUnique by id; null when there is no such user
FindUser(id) ==
  IF \E x \in Users : x.id = id
    THEN Some(CHOOSE x \in Users : x.id = id)
    ELSE Undefined

\* auth.ts 66-86: getSession, dbOk telling whether the lookup returned
GetSession(cookie, dbOk) ==
  IF ~Truthy(cookie) THEN Undefined
  ELSE IF dbOk THEN FindUser(cookie[1])
  ELSE Undefined

HasRoleAny(allowedRoles, session) == TRUE

\* auth.ts 101-106: requireRole
HasRole(allowedRoles, session) ==
  IF session = Undefined THEN FALSE ELSE session[1].role \in allowedRoles

\* api-auth 23-64: the error response of requireRoles, or none
RequireRolesError(allowedRoles, session) ==
  IF session = Undefined
    THEN Some([status |-> 401, error |-> <<"Unauthorized">>])
  ELSE IF ~HasRole(allowedRoles, session)
    THEN Some([status |-> 403,
               error |-> <<"Forbidden:", "Insufficient", "permissions">>])
  ELSE Undefined

\* bodies of POST /api/savings
PostBodies ==
  LET ok == [title |-> Some("t"), service |-> Some("EC2"),
             owner |-> Some("o"), est_monthly_saving_usd |-> Some("100.50"),
             confidence |-> Some("0"), status |-> Undefined,
             notes |-> Undefined]
  IN  {ok,
       [ok EXCEPT !.owner = Undefined],
       [ok EXCEPT !.title = Undefined],
       [ok EXCEPT !.service = Some("")],
       [ok EXCEPT !.est_monthly_saving_usd = Some("abc")],
       [ok EXCEPT !.status = Some("APPROVED"), !.confidence = Some("5")]}

\* bodies of PUT /api/savings: the id and the fields to update
PutBodies ==
  [id : {Undefined, Some(1), Some(2)},
   updates : {[status |-> "REALIZED"]}]

\* the id parameter of DELETE /api/savings
DeleteIds == {Undefined, Some(1), Some(2)}

\* files sent to the upload endpoint
AuthFiles ==
  {NoFile, File(<<"b","i","l","l">>, <<RowA>>),
   File(<<"b","i","l","l">>, <<RowC>>)}

\* the next upload slot not used yet, 0 when all are used
FreeSlot ==
  IF \E u \in Uploaders : up[u].pc = "new"
    THEN CHOOSE u \in Uploaders :
           up[u].pc = "new" /\ \A v \in Uploaders : v < u => up[v].pc # "new"
    ELSE 0

\* a request arrives at one of the endpoints; before holds the two tables
\* as they were (history)
RqArrive ==
  /\ rq.pc \in {"new", "done"}
  /\ \E e \in Protected, c \in Cookies :
       /\ e = "upload" => FreeSlot # 0
       /\ rq' = [pc |-> "auth", endpoint |-> e, cookie |-> c,
                 session |-> Undefined, bodyRead |-> FALSE, slot |-> 0,
                 input |-> Undefined, queried |-> FALSE,
                 resp |-> NoResp,
                 before |-> [store |-> store, ideas |-> ideas]]
  /\ UNCHANGED <<store, up, get, isConnected, wr, ideas, browser, proc,
               connectionCheckPromise, sub>>

\* upload/route.ts 31-32, savings/route.ts 81-82, 141-142, 184-185: the
\* handler calls requireRoles and returns its error response, if any
RequireRoles ==
  /\ rq.pc = "auth"
  /\ rq.endpoint \in Protected
  /\ \E dbOk \in BOOLEAN :
       LET session == GetSession(rq.cookie, dbOk)
           err == RequireRolesError(AllowedRoles, session)
       IN  rq' = IF err # Undefined
                   THEN [rq EXCEPT !.pc = "done", !.session = session,
                            !.resp = err[1]]
                 ELSE [rq EXCEPT !.pc = "handler", !.session = session,
                          !.slot = IF rq.endpoint = "upload" THEN FreeSlot
                                   ELSE 0]
  /\ UNCHANGED <<store, up, get, isConnected, wr, ideas, browser, proc,
               connectionCheckPromise, sub>>

\* upload/route.ts 36-121: the authorised upload reads its form data
AuthUploadBegin ==
  /\ rq.pc = "handler"
  /\ rq.endpoint = "upload"
  /\ up[rq.slot].pc = "new"
  /\ UploadBeginFrom(rq.slot, AuthFiles)

\* upload/route.ts 134-141: the upload answers
AuthUploadDone ==
  /\ rq.pc = "handler"
  /\ rq.endpoint = "upload"
  /\ up[rq.slot].pc = "done"
  /\ rq' = [rq EXCEPT !.pc = "done", !.bodyRead = TRUE,
               !.resp = up[rq.slot].resp]
  /\ UNCHANGED <<store, up, get, isConnected, wr, ideas, browser, proc,
               connectionCheckPromise, sub>>

\* an id the SavingIdea table does not hold (Prisma draws a fresh cuid)
FreshIds == {i \in 1..MaxIdeas : \A x \in ideas : x.id # i}

NewIdeaApproved(id, body) ==
  [id |-> id, title |-> body.title[1], service |-> body.service[1],
   est_monthly_saving_usd |-> ParseFloat(body.est_monthly_saving_usd[1]),
   confidence |-> ParseFloat(body.confidence[1]),
   owner |-> body.owner[1],
   status |-> Or(body.status, Some("APPROVED"))[1],
   notes |-> body.notes]

\* savings/route.ts 107-117: the data of the new record
NewIdea(id, body) ==
  [id |-> id, title |-> body.title[1], service |-> body.service[1],
   est_monthly_saving_usd |->
     IF body.est_monthly_saving_usd = Undefined THEN Undefined
     ELSE ParseFloat(body.est_monthly_saving_usd[1]),
   confidence |->
     IF body.confidence = Undefined THEN Undefined
     ELSE ParseFloat(body.confidence[1]),
   owner |-> body.owner[1],
   status |-> Or(body.status, Some("PROPOSED"))[1],
   notes |-> body.notes]

\* savings/route.ts 155-158: the record with the given fields replaced
Updated(idea, updates) ==
  [f \in DOMAIN idea |->
     IF f \in DOMAIN updates THEN updates[f] ELSE idea[f]]

RqDone(status, text) ==
  [rq EXCEPT !.pc = "done", !.bodyRead = TRUE,
     !.resp = [status |-> status, error |-> text]]

\* the same, with the body or parameter the handler read (history)
RqDoneWith(input, status, text) ==
  [RqDone(status, text) EXCEPT !.input = Some(input)]

\* savings/route.ts 97: !title || !service || !owner
MissingRequired(body) ==
  ~Truthy(body.title) \/ ~Truthy(body.service) \/ ~Truthy(body.owner)

\* savings/route.ts 84-127: POST after requireRoles; the create returns
\* from withRetry (dbOk) or throws out of it
SavingsPost ==
  /\ rq.pc = "handler"
  /\ rq.endpoint = "savingsPOST"
  /\ FreshIds # {}
  /\ \E body \in PostBodies, dbOk \in BOOLEAN :
       LET id == CHOOSE i \in FreshIds : \A j \in FreshIds : i <= j
       IN  IF MissingRequired(body)
             THEN /\ rq' = RqDoneWith(body, 400,
                                      <<"Missing", "required", "fields">>)
                  /\ UNCHANGED ideas
           ELSE IF NewIdea(id, body).est_monthly_saving_usd = Undefined
                     \/ NewIdea(id, body).confidence = Undefined
                     \/ ~dbOk
             THEN /\ rq' = RqDoneWith(body, 500, <<"Failed", "to", "create",
                                         "saving", "idea">>)
                  /\ UNCHANGED ideas
           ELSE /\ ideas' = ideas \cup {NewIdea(id, body)}
                /\ rq' = RqDoneWith(body, 201, <<>>)
  /\ UNCHANGED <<store, up, get, isConnected, wr, browser, proc,
               connectionCheckPromise, sub>>

\* savings/route.ts 144-168: PUT after requireRoles; update throws when no
\* record has the id
SavingsPut ==
  /\ rq.pc = "handler"
  /\ rq.endpoint = "savingsPUT"
  /\ \E body \in PutBodies, dbOk \in BOOLEAN :
       IF body.id = Undefined
         THEN /\ rq' = RqDoneWith(body, 400, <<"Missing", "ID">>)
              /\ UNCHANGED ideas
       ELSE IF ~dbOk \/ \A x \in ideas : x.id # body.id[1]
         THEN /\ rq' = RqDoneWith(body, 500, <<"Failed", "to", "update",
                                     "saving", "idea">>)
              /\ UNCHANGED ideas
       ELSE /\ ideas' = {IF x.id = body.id[1] THEN Updated(x, body.updates)
                         ELSE x : x \in ideas}
            /\ rq' = RqDoneWith(body, 200, <<>>)
  /\ UNCHANGED <<store, up, get, isConnected, wr, browser, proc,
               connectionCheckPromise, sub>>

\* savings/route.ts 187-210: DELETE after requireRoles; the id comes from
\* the query string, and delete throws when no record has it
SavingsDelete ==
  /\ rq.pc = "handler"
  /\ rq.endpoint = "savingsDELETE"
  /\ \E id \in DeleteIds, dbOk \in BOOLEAN :
       IF id = Undefined
         THEN /\ rq' = [RqDoneWith(id, 400, <<"Missing", "ID">>)
                          EXCEPT !.bodyRead = FALSE]
              /\ UNCHANGED ideas
       ELSE IF ~dbOk \/ \A x \in ideas : x.id # id[1]
         THEN /\ rq' = [RqDoneWith(id, 500, <<"Failed", "to", "delete",
                                      "saving", "idea">>)
                          EXCEPT !.bodyRead = FALSE]
              /\ UNCHANGED ideas
       ELSE /\ ideas' = {x \in ideas : x.id # id[1]}
            /\ rq' = [RqDoneWith(id, 200, <<"Deleted", "successfully">>)
                        EXCEPT !.bodyRead = FALSE]
  /\ UNCHANGED <<store, up, get, isConnected, wr, browser, proc,
               connectionCheckPromise, sub>>

NextAuth ==
  \/ RqArrive
  \/ RequireRoles
  \/ AuthUploadBegin
  \/ \E u \in Uploaders : UploadInsertOk(u)
  \/ AuthUploadDone
  \/ SavingsPost
  \/ SavingsPut
  \/ SavingsDelete

SpecAuth == Init /\ [][NextAuth]_vars

\* ------------------------------------------------- the portal as a whole

\* prisma/seed 7-18: the e-mail address and the password of each user
Accounts ==
  {[id |-> "u1", email |-> "admin@kco.dev", password |-> "Passw0rd!"],
   [id |-> "u2", email |-> "analyst@kco.dev", password |-> "Passw0rd!"],
   [id |-> "u3", email |-> "viewer@kco.dev", password |-> "Passw0rd!"]}

\* the endpoints that call requireAuth, and those that check nothing
AuthOnly == {"spend", "savingsGET", "prHelper"}
Open == {"login", "logout", "me"}
Endpoints == Protected \cup AuthOnly \cup Open

\* api-auth 23-32: the error response of requireAuth, or none
RequireAuthError(session) ==
  IF session = Undefined
    THEN Some([status |-> 401, error |-> <<"Unauthorized">>])
  ELSE Undefined

\* the browser sends a request to an endpoint, with the cookie it holds
PortalArrive ==
  /\ rq.pc \in {"new", "done"}
  /\ \E e \in Endpoints :
       /\ e = "upload" => FreeSlot # 0
       /\ rq' = [pc |-> IF e \in Open THEN "handler" ELSE "auth",
                 endpoint |-> e, cookie |-> browser.cookie,
                 session |-> Undefined, bodyRead |-> FALSE, slot |-> 0,
                 input |-> Undefined, queried |-> FALSE,
                 resp |-> NoResp,
                 before |-> [store |-> store, ideas |-> ideas]]
  /\ UNCHANGED <<store, up, get, isConnected, wr, ideas, browser, proc,
               connectionCheckPromise, sub>>

\* spend/route.ts 32-33, savings/route.ts 33-34, pr-helper/route.ts 25-26:
\* the handler calls requireAuth and returns its error response, if any
RequireAuth ==
  /\ rq.pc = "auth"
  /\ rq.endpoint \in AuthOnly
  /\ \E dbOk \in BOOLEAN :
       LET session == GetSession(rq.cookie, dbOk)
           err == RequireAuthError(session)
       IN  rq' = IF err # Undefined
                   THEN [rq EXCEPT !.pc = "done", !.session = session,
                            !.resp = err[1]]
                 ELSE [rq EXCEPT !.pc = "handler", !.session = session]
  /\ UNCHANGED <<store, up, get, isConnected, wr, ideas, browser, proc,
               connectionCheckPromise, sub>>

\* the decimal text of the id of an idea
Digits == <<"1", "2", "3", "4">>
IdText(i) == <<Digits[i]>>

TrimNothing(s) == s

\* String.prototype.trim on a sequence of characters
RECURSIVE Trim(_)
Trim(s) ==
  IF s = <<>> THEN s
  ELSE IF Head(s) = " " THEN Trim(Tail(s))
  ELSE IF s[Len(s)] = " " THEN Trim(SubSeq(s, 1, Len(s) - 1))
  ELSE s

\* pr-helper/route.ts 31: String(body?.id ?? "").trim()
IdOf(body) == Trim(IF body.id = Undefined THEN <<>> ELSE body.id[1])

\* bodies of POST /api/pr-helper
PrBodies ==
  [id : {Undefined, Some(<<>>), Some(<<" ">>), Some(<<"1">>),
         Some(<<" ", "1", " ">>), Some(<<"2">>)}]

\* pr-helper/route.ts 76-96: the fields the note is written from
Markdown(idea) == <<idea.title, idea.service, idea.owner, idea.status>>

\* pr-helper/route.ts 28-105: the handler after requireAuth; findUnique
\* returns from withRetry (dbOk) or throws out of it
PrHelper ==
  /\ rq.pc = "handler"
  /\ rq.endpoint = "prHelper"
  /\ \E body \in PrBodies, dbOk \in BOOLEAN :
       LET id == IdOf(body)
           found == {x \in ideas : IdText(x.id) = id}
       IN  rq' =
             IF id = <<>>
               THEN RqDoneWith(body, 400, <<"Missing", "ID">>)
             ELSE IF ~dbOk
               THEN [RqDoneWith(body, 500, <<"Failed", "to", "generate",
                                             "PR", "note">>)
                       EXCEPT !.queried = TRUE]
             ELSE IF found = {}
               THEN [RqDoneWith(body, 404, <<"Saving", "idea", "not",
                                             "found">>)
                       EXCEPT !.queried = TRUE]
             ELSE [RqDoneWith(body, 200, <<>>) EXCEPT
                     !.queried = TRUE,
                     !.resp = [status |-> 200,
                               markdown |->
                                 Markdown(CHOOSE x \in found : TRUE)]]
  /\ UNCHANGED <<store, up, get, isConnected, wr, ideas, browser, proc,
               connectionCheckPromise, sub>>

\* the status parameter of GET /api/savings
StatusParams == {Undefined, Some("PROPOSED"), Some("nonsense")}
SavingStatus == {"PROPOSED", "APPROVED", "REALIZED"}

\* savings/route.ts 36-67: GET after requireAuth
SavingsGet ==
  /\ rq.pc = "handler"
  /\ rq.endpoint = "savingsGET"
  /\ \E statusParam \in StatusParams, dbOk \in BOOLEAN :
       rq' =
         IF ~dbOk
           THEN [RqDoneWith(statusParam, 500,
                            <<"Failed", "to", "fetch", "savings">>)
                   EXCEPT !.bodyRead = FALSE, !.queried = TRUE]
         ELSE [RqDoneWith(statusParam, 200, <<>>) EXCEPT
                 !.bodyRead = FALSE, !.queried = TRUE,
                 !.resp =
                    [status |-> 200,
                     ideas |->
                       IF Truthy(statusParam)
                            /\ statusParam[1] \in SavingStatus
                         THEN {x \in ideas : x.status = statusParam[1]}
                       ELSE ideas]]
  /\ UNCHANGED <<store, up, get, isConnected, wr, ideas, browser, proc,
               connectionCheckPromise, sub>>

\* bodies of POST /api/auth/login
LoginBodies ==
  [email : {Undefined, Some("admin@kco.dev"), Some("viewer@kco.dev"),
            Some("nobody@kco.dev")},
   password : {Some(""), Some("Passw0rd!"), Some("guess")}]

LoginAnyPassword(email, password) ==
  IF \E a \in Accounts : a.email = email
    THEN FindUser((CHOOSE a \in Accounts : a.email = email).id)
    ELSE Undefined

\* auth.ts 39-56: the user of the address, if the password is the user's
Login(email, password) ==
  IF \E a \in Accounts : a.email = email /\ a.password = password
    THEN FindUser((CHOOSE a \in Accounts : a.email = email).id)
    ELSE Undefined

\* auth/login/route.ts 20-54: the login handler; on success the response
\* sets the session cookie of the browser to the id of the user
LoginPost ==
  /\ rq.pc = "handler"
  /\ rq.endpoint = "login"
  /\ \E body \in LoginBodies, dbOk \in BOOLEAN :
       IF ~Truthy(body.email) \/ ~Truthy(body.password)
         THEN /\ rq' = RqDoneWith(body, 400, <<"Email", "and", "password",
                                               "required">>)
              /\ UNCHANGED browser
       ELSE IF ~dbOk
         THEN /\ rq' = [RqDoneWith(body, 500, <<"Login", "failed">>)
                          EXCEPT !.queried = TRUE]
              /\ UNCHANGED browser
       ELSE IF Login(body.email[1], body.password[1]) = Undefined
         THEN /\ rq' = [RqDoneWith(body, 401, <<"Invalid", "credentials">>)
                          EXCEPT !.queried = TRUE]
              /\ UNCHANGED browser
       ELSE /\ rq' = [RqDoneWith(body, 200, <<>>) EXCEPT
                        !.queried = TRUE,
                        !.session = Login(body.email[1], body.password[1])]
            /\ browser' =
                 [browser EXCEPT !.cookie =
                    Some(Login(body.email[1], body.password[1])[1].id)]
  /\ UNCHANGED <<store, up, get, isConnected, wr, ideas, proc,
               connectionCheckPromise, sub>>

\* auth/logout/route.ts 18-24: the response deletes the session cookie
LogoutPost ==
  /\ rq.pc = "handler"
  /\ rq.endpoint = "logout"
  /\ rq' = [RqDone(200, <<"Logged", "out">>) EXCEPT !.bodyRead = FALSE]
  /\ browser' = [browser EXCEPT !.cookie = Undefined]
  /\ UNCHANGED <<store, up, get, isConnected, wr, ideas, proc,
               connectionCheckPromise, sub>>

\* auth/me/route.ts 46-63
MeGet ==
  /\ rq.pc = "handler"
  /\ rq.endpoint = "me"
  /\ \E dbOk \in BOOLEAN :
       LET session == GetSession(rq.cookie, dbOk)
       IN  rq' = IF session = Undefined
                   THEN [RqDone(401, <<"Not", "authenticated">>) EXCEPT
                           !.bodyRead = FALSE]
                 ELSE [RqDone(200, <<>>) EXCEPT
                         !.bodyRead = FALSE, !.session = session]
  /\ UNCHANGED <<store, up, get, isConnected, wr, ideas, browser, proc,
               connectionCheckPromise, sub>>

\* parameters of the spend requests of the portal
PortalParams ==
  {p \in SpendParams :
     /\ p.range \in {Undefined, Some("7")}
     /\ p.cloud = Undefined /\ p.team = Undefined /\ p.env = Undefined}

\* spend/route.ts 36-59: the authenticated spend request starts
AuthSpendBegin ==
  /\ rq.pc = "handler"
  /\ rq.endpoint = "spend"
  /\ SpendBeginFrom(PortalParams)

\* spend/route.ts 109-118: the spend request answers
AuthSpendDone ==
  /\ rq.pc = "handler"
  /\ rq.endpoint = "spend"
  /\ get.pc = "done"
  /\ rq' = [rq EXCEPT !.pc = "done", !.queried = TRUE, !.resp = get.resp]
  /\ get' = NoGet
  /\ UNCHANGED <<store, up, isConnected, wr, ideas, browser, proc,
               connectionCheckPromise, sub>>

\* the cookie the browser holds at the start: none, or one left over from
\* a database that has been reset since
InitPortal ==
  /\ store = {}
  /\ up = [u \in Uploaders |-> NotArrived]
  /\ get = NoGet
  /\ isConnected = FALSE
  /\ wr = NoCall
  /\ rq = NoRq
  /\ ideas = {}
  /\ browser \in {NoBrowser, [NoBrowser EXCEPT !.cookie = Some("u9")]}
  /\ proc = NoSignal
  /\ connectionCheckPromise = Null
  /\ sub = NoSubs

NextPortal ==
  \/ PortalArrive
  \/ RequireRoles
  \/ RequireAuth
  \/ AuthUploadBegin
  \/ \E u \in Uploaders : UploadInsertOk(u)
  \/ \E u \in Uploaders : UploadInsertLost(u)
  \/ AuthUploadDone
  \/ SavingsPost
  \/ SavingsPut
  \/ SavingsDelete
  \/ SavingsGet
  \/ PrHelper
  \/ LoginPost
  \/ LogoutPost
  \/ MeGet
  \/ AuthSpendBegin
  \/ \E q \in Queries : SpendQueryOk(q)
  \/ \E q \in Queries : SpendQueryThrows(q)
  \/ SpendRespond
  \/ AuthSpendDone

SpecPortal == InitPortal /\ [][NextPortal]_vars

\* ------------------------------------------------------- page navigation

\* the pages a user asks for
Paths == {"/login", "/dashboard"}

\* proxy 5-7
ProtectedRoutes == {"/dashboard"}
AuthRoutes == {"/login"}

\* proxy 13-14: !!sessionCookie?.value
HasSession(cookie) == Truthy(cookie)

\* proxy 23-34: the path the proxy redirects to, or none
ProxyRedirect(pathname, cookie) ==
  IF pathname \in ProtectedRoutes /\ ~HasSession(cookie)
    THEN Some("/login")
  ELSE IF pathname \in AuthRoutes /\ HasSession(cookie)
    THEN Some("/dashboard")
  ELSE Undefined

\* redirects followed since the page was asked for (history), counted up
\* to MaxRedirects
CountUp(n) == IF n < MaxRedirects THEN n + 1 ELSE n

\* the user enters the address of a page
Navigate ==
  /\ browser.pc \in {"idle", "shown"}
  /\ \E path \in Paths :
       browser' = [cookie |-> browser.cookie, page |-> path, pc |-> "proxy",
                   asked |-> path, redirects |-> 0]
  /\ UNCHANGED <<store, up, get, isConnected, wr, rq, ideas, proc,
               connectionCheckPromise, sub>>

\* proxy 9-35: the request for the page passes the proxy
Proxy ==
  /\ browser.pc = "proxy"
  /\ LET to == ProxyRedirect(browser.page, browser.cookie)
     IN  browser' =
           IF to # Undefined
             THEN [browser EXCEPT !.page = to[1],
                                  !.redirects = CountUp(@)]
           ELSE IF browser.page = "/dashboard"
             THEN [browser EXCEPT !.pc = "mounted"]
           ELSE [browser EXCEPT !.pc = "shown"]
  /\ UNCHANGED <<store, up, get, isConnected, wr, rq, ideas, proc,
               connectionCheckPromise, sub>>

\* dashboard/page.tsx 53-65 with auth/me/route.ts 46-63: the dashboard
\* asks /api/auth/me for the user and goes to /login when there is none
\* dbOk tells whether the user lookup of getSession returned
DashboardMountAt(dbOk) ==
  /\ browser.pc = "mounted"
  /\ browser' =
       IF GetSession(browser.cookie, dbOk) # Undefined
         THEN [browser EXCEPT !.pc = "shown"]
       ELSE [browser EXCEPT !.page = "/login", !.pc = "proxy",
                            !.redirects = CountUp(@)]
  /\ UNCHANGED <<store, up, get, isConnected, wr, rq, ideas, proc,
               connectionCheckPromise, sub>>

\* LoginPage handleSubmit with auth/login/route.ts 20-54: the form is sent;
\* a login that is answered 200 sets the cookie and goes to /dashboard
LoginSubmit ==
  /\ browser.pc = "shown"
  /\ browser.page = "/login"
  /\ \E body \in LoginBodies :
       LET user == IF Truthy(body.email) /\ Truthy(body.password)
                     THEN Login(body.email[1], body.password[1])
                   ELSE Undefined
       IN  browser' =
             IF user # Undefined
               THEN [browser EXCEPT !.cookie = Some(user[1].id),
                       !.page = "/dashboard", !.pc = "proxy",
                       !.asked = "/dashboard", !.redirects = 0]
             ELSE browser
  /\ UNCHANGED <<store, up, get, isConnected, wr, rq, ideas, proc,
               connectionCheckPromise, sub>>

\* dashboard/page.tsx 73-76 with auth/logout/route.ts 18-24
HandleLogout ==
  /\ browser.pc = "shown"
  /\ browser.page = "/dashboard"
  /\ browser' = [browser EXCEPT !.cookie = Undefined, !.page = "/login",
                   !.pc = "proxy", !.asked = "/login", !.redirects = 0]
  /\ UNCHANGED <<store, up, get, isConnected, wr, rq, ideas, proc,
               connectionCheckPromise, sub>>

\* the cookie the browser holds when it first asks for a page
InitNav ==
  /\ store = {}
  /\ up = [u \in Uploaders |-> NotArrived]
  /\ get = NoGet
  /\ isConnected = FALSE
  /\ wr = NoCall
  /\ rq = NoRq
  /\ ideas = {}
  /\ \E c \in Cookies, path \in Paths :
       browser = [cookie |-> c, page |-> path, pc |-> "proxy",
                  asked |-> path, redirects |-> 0]
  /\ proc = NoSignal
  /\ connectionCheckPromise = Null
  /\ sub = NoSubs

DashboardMount == \E dbOk \in BOOLEAN : DashboardMountAt(dbOk)

\* the steps that need no user
NavStep == Proxy \/ DashboardMount

NextNav == Navigate \/ Proxy \/ DashboardMount \/ LoginSubmit \/ HandleLogout

\* requests and responses arrive: a step that needs no user is taken, and
\* the user lookup does not fail for ever
SpecNavLive ==
  /\ InitNav /\ [][NextNav]_vars
  /\ WF_vars(NavStep)
  /\ SF_vars(DashboardMountAt(TRUE))

\* ------------------------------------------ the column mapping on its own

Fields == {"date", "account_or_project", "service", "team", "env",
           "cost_usd"}

\* route.ts 84-91: the columns a field is read from, in the order tried
FieldCols ==
  [date |-> <<"date", "usage_start_time", "usage_date">>,
   account_or_project |->
     <<"account_id", "project_id", "billing_account_id">>,
   service |-> <<"service", "service_description", "sku_description">>,
   team |-> <<"team", "owner", "department">>,
   env |-> <<"env", "environment", "stage">>,
   cost_usd |-> <<"cost_usd", "cost", "cost_amount">>]

\* a value for each column, so that the column a value came from shows
FieldVals ==
  [date |-> <<"2024-03-31", "2024-03-24", "2024-03-01">>,
   account_or_project |-> <<"123", "p1", "b1">>,
   service |-> <<"EC2", "S3", "RDS">>,
   team |-> <<"a", "b", "c">>,
   env |-> <<"dev", "prod", "stage">>,
   cost_usd |-> <<"5", "50.25", "-3">>]

\* two rows as one: the columns of both, those of b taking precedence
Merge(a, b) ==
  [col \in DOMAIN a \cup DOMAIN b |->
     IF col \in DOMAIN b THEN b[col] ELSE a[col]]

\* the columns of field f, each absent (0), empty (1) or holding its value
Cells(f, c) ==
  [col \in {FieldCols[f][k] : k \in {j \in 1..3 : c[j] # 0}} |->
     LET k == CHOOSE j \in 1..3 : FieldCols[f][j] = col
     IN  IF c[k] = 1 THEN "" ELSE FieldVals[f][k]]

\* a row with date, service and cost, and the columns of f as c says
VariedRow(f, c) ==
  LET base == [date |-> "2024-03-31", service |-> "EC2", cost_usd |-> "5"]
      kept == [col \in DOMAIN base \ {FieldCols[f][1]} |-> base[col]]
  IN  Merge(kept, Cells(f, c))

\* a row whose every field is in the k-th of its columns; the optional
\* fields hold the given values, which may be empty
StyledRow(k, account, team, env) ==
  Merge(Merge([x \in {FieldCols.date[k]} |-> "2024-03-31"],
              [x \in {FieldCols.service[k]} |-> "EC2"]),
        Merge(Merge([x \in {FieldCols.cost_usd[k]} |-> "5"],
                    [x \in {FieldCols.account_or_project[k]} |-> account]),
              Merge([x \in {FieldCols.team[k]} |-> team],
                    [x \in {FieldCols.env[k]} |-> env])))

\* a row with date, service and cost, and the given team and env; Undefined
\* leaves the column out
TaggedRow(team, env) ==
  Merge([date |-> "2024-03-31", service |-> "EC2", cost_usd |-> "5"],
        Merge(IF team = Undefined THEN <<>> ELSE [x \in {"team"} |-> team[1]],
              IF env = Undefined THEN <<>> ELSE [x \in {"env"} |-> env[1]]))

\* values of team and env that hold the separator of the key or the text
\* of an absent value
Tags == {Undefined, Some("a"), Some("a_b"), Some("b_c"), Some("c"),
         Some("undefined")}

\* files of two rows that differ in team or env
TaggedFiles ==
  {File(<<"b","i","l","l">>, <<TaggedRow(t1, e1), TaggedRow(t2, e2)>>) :
     t1 \in Tags, t2 \in Tags, e1 \in {Some("c"), Some("b_c")},
     e2 \in {Some("c"), Some("b_c")}}

\* files of one row with the columns of one field varied, files of two
\* rows holding the same values under different headers, and files of two
\* rows with different tags
RowFiles ==
  TaggedFiles \cup
  {File(<<"b","i","l","l">>, <<VariedRow(f, c)>>) :
     f \in Fields, c \in [1..3 -> {0, 1, 2}]}
  \cup
  {File(<<"b","i","l","l">>,
        <<StyledRow(k[1], a, t, e), StyledRow(k[2], a, t, e)>>) :
     k \in {<<1, 2>>, <<2, 3>>, <<1, 3>>},
     a \in {"p1", ""}, t \in {"a", ""}, e \in {"dev", ""}}

\* one upload of one of these files
NextRows ==
  \/ UploadBeginFrom(1, RowFiles)
  \/ UploadInsertOk(1)

SpecRows == Init /\ [][NextRows]_vars

\* ================================================================ claims

\* ------------------------------------------------- vocabulary of the claims

Done(u) == up[u].pc = "done"
Succeeded(u) == Done(u) /\ up[u].resp.status = 200
RowsOf(u) == up[u].file.rows
NumRows(u) == IF up[u].file.present THEN Len(RowsOf(u)) ELSE 0

\* a raw value that is empty or absent
Missing(v) == v = <<>> \/ v = <<"">>

\* row i of request u lacks one of date, service, cost
LacksRequired(u, i) ==
  LET n == Normalize(RowsOf(u)[i])
  IN  Missing(n.date) \/ Missing(n.service) \/ Missing(n.cost_usd)

KeyOfRow(u, i) == DedupeKey(Normalize(RowsOf(u)[i]), up[u].cloud)

\* row i repeats the fingerprint of an earlier admissible row of its file
RepeatsEarlier(u, i) ==
  \E k \in 1..(i - 1) : ~LacksRequired(u, k) /\ KeyOfRow(u, k) = KeyOfRow(u, i)

NumLacking(u) == Cardinality({i \in 1..NumRows(u) : LacksRequired(u, i)})
NumRepeats(u) ==
  Cardinality({i \in 1..NumRows(u) :
                 ~LacksRequired(u, i) /\ RepeatsEarlier(u, i)})

\* the records request u added to the store
AddedBy(u) == {r \in store : r.by = u}

\* every row of the file passes validation, and the rows differ pairwise in
\* a raw field
AllAdmissible(u) == \A i \in 1..NumRows(u) : ~LacksRequired(u, i)
PairwiseDistinctRaw(u) ==
  \A i, j \in 1..NumRows(u) :
     i # j => Normalize(RowsOf(u)[i]) # Normalize(RowsOf(u)[j])

\* request v uploaded the same file, with every row inserted, and had
\* answered before request u arrived
FirstUploadOf(v, u) ==
  /\ v < u
  /\ Succeeded(v)
  /\ up[v].file = up[u].file
  /\ up[v].resp.inserted = NumRows(v)
  /\ up[v].resp.skipped = 0
  /\ v \notin up[u].peers

\* ----------------------------------------------------------------------
\* C1: for a file whose N parsed rows all pass validation and differ
\* pairwise in a raw field, an upload (alone, answering 200) to a store
\* holding none of the rows returns inserted = N and skipped = 0, and an
\* upload of the same file after that returns inserted = 0, skipped = N and
\* adds no record.
C1_IdempotentReupload ==
  \A u \in Uploaders :
    (/\ Succeeded(u)
     /\ up[u].peers = {}
     /\ AllAdmissible(u)
     /\ PairwiseDistinctRaw(u))
    => /\ up[u].preNone =>
            /\ up[u].resp.inserted = NumRows(u)
            /\ up[u].resp.skipped = 0
       /\ \A v \in Uploaders :
            FirstUploadOf(v, u) =>
              /\ up[u].resp.inserted = 0
              /\ up[u].resp.skipped = NumRows(u)
              /\ AddedBy(u) = {}

\* ----------------------------------------------------------------------
\* C2: in every reachable state no two persisted spend records have the
\* same dedupe_key.
C2_UniqueFingerprint ==
  \A r1, r2 \in store : r1.dedupe_key = r2.dedupe_key => r1 = r2

\* an insert met a key the store already held, and the store holds several
\* records
C2_Witness ==
  /\ Cardinality(store) >= 2
  /\ \E u \in Uploaders : Succeeded(u) /\ up[u].rejected > 0

\* ----------------------------------------------------------------------
\* C3: when two uploads with overlapping surviving rows run concurrently
\* and both answer 200, every overlapping row is persisted exactly once and
\* the two inserted counts add up to the number of records the two uploads
\* added to the store.
KeysOf(u) == {up[u].validRows[i].dedupe_key : i \in 1..Len(up[u].validRows)}

C3_ConcurrentOverlap ==
  \A u, v \in Uploaders :
    (/\ u # v
     /\ Succeeded(u) /\ Succeeded(v)
     /\ v \in up[u].peers
     /\ KeysOf(u) \cap KeysOf(v) # {})
    => /\ \A k \in KeysOf(u) \cap KeysOf(v) :
            Cardinality({r \in store : r.dedupe_key = k}) = 1
       /\ up[u].resp.inserted + up[v].resp.inserted
            = Cardinality(AddedBy(u) \cup AddedBy(v))

\* ----------------------------------------------------------------------
\* C4: a row whose normalized date, service or cost is empty or absent is
\* never in the list passed to the bulk insert and never becomes a
\* persisted record.
C4_ValidationGate ==
  /\ \A u \in Uploaders : \A i \in 1..NumRows(u) :
       LacksRequired(u, i) =>
         \A j \in 1..Len(up[u].validRows) : up[u].validRows[j].src # i
  /\ \A r \in store :
       ~Missing(r.raw.date) /\ ~Missing(r.raw.service)
         /\ ~Missing(r.raw.cost_usd)

\* an upload of a file with a row lacking a required field added records
C4_Witness ==
  \E u \in Uploaders :
    /\ Succeeded(u)
    /\ NumLacking(u) > 0
    /\ AddedBy(u) # {}

\* ----------------------------------------------------------------------
\* C5: for every upload answering 200, inserted + skipped is the number of
\* parsed rows, and skipped is the number of rows rejected by validation
\* plus the in-batch duplicates plus the rows the store rejected as already
\* persisted.
C5_SkipCount ==
  \A u \in Uploaders :
    Succeeded(u) =>
      /\ up[u].resp.inserted + up[u].resp.skipped = NumRows(u)
      /\ up[u].resp.skipped
           = NumLacking(u) + NumRepeats(u) + up[u].rejected

\* an upload with rows skipped for two of the reasons
C5_Witness ==
  \E u \in Uploaders :
    /\ Succeeded(u)
    /\ up[u].rejected > 0
    /\ NumLacking(u) + NumRepeats(u) > 0

\* ----------------------------------------------------------------------
\* C6: the list handed to the bulk insert holds pairwise distinct
\* fingerprints: it is, in file order, the admissible rows that repeat no
\* earlier admissible row's fingerprint.  A file holding the same row twice
\* gives 1 inserted, 1 skipped when the first call of the bulk insert
\* returns and the store held no record with the row's fingerprint.
C6_InBatchDedupe ==
  \A u \in Uploaders :
    LET vr == up[u].validRows
    IN  /\ \A i, j \in 1..Len(vr) :
             i # j => vr[i].dedupe_key # vr[j].dedupe_key
        /\ \A i, j \in 1..Len(vr) : i < j => vr[i].src < vr[j].src
        /\ \A i \in 1..NumRows(u) :
             (\E j \in 1..Len(vr) : vr[j].src = i)
               <=> (~LacksRequired(u, i) /\ ~RepeatsEarlier(u, i))
        /\ (/\ Succeeded(u)
            /\ up[u].attempt = 1
            /\ up[u].rejected = 0
            /\ NumRows(u) = 2
            /\ RowsOf(u)[1] = RowsOf(u)[2])
           => up[u].resp.inserted = 1 /\ up[u].resp.skipped = 1

\* a file holding the same row twice was uploaded
C6_Witness ==
  \E u \in Uploaders :
    /\ Succeeded(u)
    /\ NumRows(u) = 2
    /\ RowsOf(u)[1] = RowsOf(u)[2]
    /\ up[u].resp.inserted = 1
    /\ up[u].resp.skipped = 1

\* ----------------------------------------------------------------------
\* C7: the cloud of an upload is decided from the file name and is the same
\* for every row of the file: gcp when the lower-cased name contains "gcp"
\* (also when it contains "aws" too), aws when it contains "aws" only or
\* neither.
NameHasGcp(name) ==
  \E i \in 1..(Len(name) - 2) :
     /\ name[i] \in {"g", "G"}
     /\ name[i + 1] \in {"c", "C"}
     /\ name[i + 2] \in {"p", "P"}

NameHasAws(name) ==
  \E i \in 1..(Len(name) - 2) :
     /\ name[i] \in {"a", "A"}
     /\ name[i + 1] \in {"w", "W"}
     /\ name[i + 2] \in {"s", "S"}

CloudByName(name) ==
  CASE NameHasGcp(name) -> "gcp"
    [] ~NameHasGcp(name) /\ NameHasAws(name) -> "aws"
    [] ~NameHasGcp(name) /\ ~NameHasAws(name) -> "aws"

C7_CloudFromFileName ==
  \A u \in Uploaders :
    (up[u].pc # "new" /\ NumRows(u) > 0) =>
      /\ up[u].cloud = CloudByName(up[u].file.name)
      /\ \A j \in 1..Len(up[u].validRows) :
           up[u].validRows[j].cloud = up[u].cloud
      /\ \A r \in AddedBy(u) : r.cloud = up[u].cloud
      /\ Succeeded(u) => up[u].resp.cloud = up[u].cloud

\* a file whose name holds both "aws" and "gcp" added two gcp records
C7_Witness ==
  \E u \in Uploaders :
    /\ Succeeded(u)
    /\ NameHasGcp(up[u].file.name) /\ NameHasAws(up[u].file.name)
    /\ Cardinality({r \in AddedBy(u) : r.cloud = "gcp"}) = 2

\* ----------------------------------------------------------------------
\* C8: an upload whose parsed row set is empty answers 400 "Empty CSV
\* file"; one with parsed rows but no surviving row answers 400 "No valid
\* rows found after parsing"; in both cases, and when no file is sent, the
\* bulk insert is never called and the store is unchanged.
C8_InputErrors ==
  \A u \in Uploaders :
    Done(u) =>
      /\ ~up[u].file.present =>
           /\ up[u].resp.status = 400
           /\ up[u].attempt = 0 /\ AddedBy(u) = {}
      /\ (up[u].file.present /\ NumRows(u) = 0) =>
           /\ up[u].resp = [status |-> 400,
                            error |-> <<"Empty", "CSV", "file">>]
           /\ up[u].attempt = 0 /\ AddedBy(u) = {}
      /\ (NumRows(u) > 0 /\ \A i \in 1..NumRows(u) : LacksRequired(u, i)) =>
           /\ up[u].resp = [status |-> 400,
                            error |-> <<"No", "valid", "rows", "found",
                                        "after", "parsing">>]
           /\ up[u].attempt = 0 /\ AddedBy(u) = {}

\* both errors were answered, to a store that holds records
C8_Witness ==
  /\ \E u \in Uploaders :
       Done(u) /\ up[u].file.present /\ NumRows(u) = 0
  /\ \E u \in Uploaders :
       Done(u) /\ NumRows(u) > 0 /\ up[u].resp.status = 400

\* ----------------------------------------------------------------------
\* C9: an error thrown by the bulk insert (a non-connection error, or a
\* connection error on the last attempt) makes the upload answer 500 with
\* the fixed body "Upload failed", which holds no word of the error.
ErrorWords(e) == {e.name} \cup {e.message[i] : i \in 1..Len(e.message)}

C9_OpaqueFailure ==
  \A u \in Uploaders :
    /\ (Done(u) /\ up[u].thrown # NoError) =>
         /\ up[u].resp.status = 500
         /\ up[u].resp.error = <<"Upload", "failed">>
         /\ \A i \in 1..Len(up[u].resp.error) :
              up[u].resp.error[i] \notin ErrorWords(up[u].thrown)
         /\ IsConnectionError(up[u].thrown) =>
              up[u].attempt = DefaultMaxRetries
    /\ (Done(u) /\ up[u].resp.status = 500) => up[u].thrown # NoError
    /\ (Done(u) /\ up[u].attempt > 0 /\ DataInvalid(up[u].validRows)) =>
         up[u].resp.status = 500

\* one upload failed on a connection error after its retries, another on an
\* error that is no connection error
C9_Witness ==
  /\ \E u \in Uploaders :
       Done(u) /\ IsConnectionError(up[u].thrown)
  /\ \E u \in Uploaders :
       Done(u) /\ up[u].thrown # NoError /\ ~IsConnectionError(up[u].thrown)

\* ----------------------------------------------------------------------
\* C10 as stated, dates and "today" being calendar days: the daily series
\* has one entry per day d with a matching record, today - window <= d <=
\* today, in ascending order, each total the sum of cost of the matching
\* records of that day; the totals sum to the cost of all matching records.
Answered == get.pc = "done" /\ get.resp.status = 200

DayOf(t) == t \div TicksPerDay

\* the record passes the cloud, team and env filters of the request
PassesFilters(r) ==
  /\ Truthy(get.params.cloud) => r.cloud = get.params.cloud[1]
  /\ Truthy(get.params.team) => r.team = get.params.team[1]
  /\ Truthy(get.params.env) => r.env = get.params.env[1]

WindowDays == RangeOf(get.params)[1]

MatchingByDay ==
  {r \in store :
     /\ PassesFilters(r)
     /\ DayOf(get.now) - WindowDays <= DayOf(r.date)
     /\ DayOf(r.date) <= DayOf(get.now)}

MatchingByInstant ==
  {r \in store :
     /\ PassesFilters(r)
     /\ get.now - WindowDays * TicksPerDay <= r.date
     /\ r.date <= get.now}

MatchingServices == {r.service : r \in MatchingByInstant}

ServiceTotal(sv) == SumCost({r \in MatchingByInstant : r.service = sv})

C11_TopServices ==
  Answered =>
    LET top == get.resp.topServices
        included == {top[i].service : i \in 1..Len(top)}
    IN  /\ Len(top) <= 5
        /\ \A i, j \in 1..Len(top) : i < j => top[i].sum >= top[j].sum
        /\ \A i \in 1..Len(top) :
             /\ top[i].service \in MatchingServices
             /\ top[i].sum = ServiceTotal(top[i].service)
        /\ \A sv \in MatchingServices \ included :
             \A i \in 1..Len(top) : ServiceTotal(sv) <= top[i].sum

\* a filtered request over six or more matching services was answered with
\* five of them, two of equal sums, while a service of the same sum as the
\* last one was left out and the store holds a record the filters leave out
C11_Witness ==
  /\ Answered
  /\ Truthy(get.params.team)
  /\ Cardinality(MatchingServices) >= 6
  /\ Len(get.resp.topServices) = 5
  /\ \E sv \in MatchingServices :
       /\ \A i \in 1..5 : get.resp.topServices[i].service # sv
       /\ ServiceTotal(sv) = get.resp.topServices[5].sum
  /\ \E r \in store : r \notin MatchingByInstant

\* ----------------------------------------------------------------------
\* C12: availableTeams and availableEnvs depend only on the store and the
\* date window: a request with the same range and any other cloud, team and
\* env filters gets the same two lists, each holding every distinct
\* non-empty team (resp. env) of the records in the window exactly once, in
\* sorted order.
InRequestWindow ==
  {r \in store :
     /\ get.now - WindowDays * TicksPerDay <= r.date
     /\ r.date <= get.now}

\* the list holds each string of S once, in the order of the strings
SortedListOf(list, S) ==
  /\ {list[i] : i \in 1..Len(list)} = S
  /\ \A i, j \in 1..Len(list) : i < j => StrRank(list[i]) < StrRank(list[j])

C12_AvailableLists ==
  Answered =>
    /\ SortedListOf(get.resp.availableTeams,
                    {r.team : r \in InRequestWindow} \ {""})
    /\ SortedListOf(get.resp.availableEnvs,
                    {r.env : r \in InRequestWindow} \ {""})
    /\ \A other \in SpendParams :
         other.range = get.params.range =>
           /\ AvailableTeams(store, WhereOf(other, get.now))
                = get.resp.availableTeams
           /\ AvailableEnvs(store, WhereOf(other, get.now))
                = get.resp.availableEnvs

\* a request filtered by team and env was answered with a team and an env
\* that only records outside its filters carry
C12_Witness ==
  /\ Answered
  /\ Truthy(get.params.team) /\ Truthy(get.params.env)
  /\ \E i \in 1..Len(get.resp.availableTeams) :
       get.resp.availableTeams[i] # get.params.team[1]
  /\ \E i \in 1..Len(get.resp.availableEnvs) :
       get.resp.availableEnvs[i] # get.params.env[1]
  /\ Len(get.resp.availableTeams) >= 3

\* ----------------------------------------------------------------------
\* C13: the lookback window the aggregation endpoint applies is always one
\* of 7, 30 or 90 days, and is 30 days when the request carries no range
\* parameter.
AppliedWindow ==
  IF WhereInvalid(get.where) THEN Undefined
  ELSE Some((get.where.lte[1] - get.where.gte[1]) \div TicksPerDay)

C13_WindowOneOfThree ==
  get.pc # "new" =>
    /\ AppliedWindow \in {Some(7), Some(30), Some(90)}
    /\ get.params.range = Undefined => AppliedWindow = Some(30)

\* ----------------------------------------------------------------------
\* C14: when the operation passed to withRetry fails with an error that is
\* not classified as connection-related, withRetry rethrows that error at
\* once: the failed invocation is the last thing the call did (no further
\* invocation, no disconnect or reconnect, no wait).
OpsOf(log) == {i \in 1..Len(log) : log[i].ev = "operation"}
FailedOps(log) == {i \in OpsOf(log) : log[i].err # NoError}
WaitsOf(log) == {i \in 1..Len(log) : log[i].ev = "wait"}

C14_NoRetryOfOtherErrors ==
  Running \/ Finished =>
    \A i \in FailedOps(wr.log) :
       ~IsConnectionError(wr.log[i].err) =>
         /\ i = Len(wr.log)
         /\ wr.pc = "thrown"
         /\ wr.thrown = wr.log[i].err

\* a call threw an error that is no connection error at its second
\* invocation, after a connection error had been retried
C14_Witness ==
  /\ wr.pc = "thrown"
  /\ ~IsConnectionError(wr.thrown)
  /\ Cardinality(OpsOf(wr.log)) = 2
  /\ WaitsOf(wr.log) # {}

\* ----------------------------------------------------------------------
\* C15: every call of withRetry with maxRetries >= 1 terminates, having
\* invoked the operation at least once and at most maxRetries times; it
\* returns the result of the first invocation that succeeds, whatever
\* connection errors came before, and when all maxRetries invocations fail
\* with connection errors it throws the error of the last one.
C15_Outcome ==
  (Finished /\ wr.maxRetries >= 1) =>
    LET ops == OpsOf(wr.log)
        failed == FailedOps(wr.log)
    IN  /\ 1 <= Cardinality(ops)
        /\ Cardinality(ops) <= wr.maxRetries
        /\ wr.pc = "returned" <=> ops # failed
        /\ wr.pc = "returned" =>
             /\ wr.log[Len(wr.log)].ev = "operation"
             /\ wr.log[Len(wr.log)].err = NoError
             /\ wr.result = wr.log[Len(wr.log)].attempt
             /\ Cardinality(ops \ failed) = 1
             /\ \A i \in failed : IsConnectionError(wr.log[i].err)
        /\ (/\ wr.pc = "thrown"
            /\ \A i \in failed : IsConnectionError(wr.log[i].err))
           => /\ Cardinality(ops) = wr.maxRetries
              /\ wr.log[Len(wr.log)].ev = "operation"
              /\ wr.thrown = wr.log[Len(wr.log)].err

C15_Terminates ==
  /\ []C15_Outcome
  /\ (Running /\ wr.maxRetries >= 1) ~> Finished

\* a default call returned at its third invocation, and the flag was up
C15_Witness ==
  /\ wr.pc = "returned"
  /\ wr.maxRetries = DefaultMaxRetries
  /\ wr.result = 3
  /\ Cardinality(FailedOps(wr.log)) = 2

\* ----------------------------------------------------------------------
\* C16 as stated: with the default parameters the waits between successive
\* attempts are 500ms, 1000ms, then 2000ms: each retry k is preceded by a
\* wait of initialDelay * 2^(k-1), and a call that uses up its attempts
\* has waited three times.
WaitsList(log) ==
  LET RECURSIVE W(_)
      W(i) == IF i > Len(log) THEN <<>>
              ELSE (IF log[i].ev = "wait" THEN <<log[i].ms>> ELSE <<>>)
                   \o W(i + 1)
  IN  W(1)

DefaultCall == wr.maxRetries = DefaultMaxRetries

BodyRead ==
  \/ rq.bodyRead
  \/ IF rq.slot = 0 THEN FALSE ELSE up[rq.slot].pc # "new"

TablesChanged == store # rq.before.store \/ ideas # rq.before.ideas

\* the user the session cookie of the request names, if any
CookieUser ==
  {x \in Users : rq.cookie # Undefined /\ x.id = rq.cookie[1]}

C17_RoleGate ==
  rq.pc # "new" =>
    /\ rq.session # Undefined => rq.session[1] \in CookieUser
    /\ TablesChanged =>
         /\ rq.session # Undefined
         /\ rq.session[1].role \in {"ADMIN", "ANALYST"}
    /\ (rq.pc = "done" /\ rq.session = Undefined) =>
         /\ rq.resp.status = 401
         /\ ~BodyRead
         /\ ~TablesChanged
    /\ (rq.pc = "done" /\ CookieUser = {}) => rq.resp.status = 401
    /\ (rq.pc = "done" /\ rq.session # Undefined
          /\ rq.session[1].role = "VIEWER") =>
         /\ rq.resp.status = 403
         /\ ~BodyRead
         /\ ~TablesChanged

\* a VIEWER was refused by the upload endpoint while records and ideas of
\* earlier, authorised requests are persisted
C17_Witness ==
  /\ rq.pc = "done"
  /\ rq.endpoint = "upload"
  /\ rq.session # Undefined
  /\ rq.session[1].role = "VIEWER"
  /\ rq.resp.status = 403
  /\ store # {} /\ ideas # {}

\* ----------------------------------------------------------------------
\* C18: each canonical raw field of a row is the first non-empty value
\* among its accepted columns in the stated order (date: date,
\* usage_start_time, usage_date; service: service, service_description,
\* sku_description; cost: cost_usd, cost, cost_amount; likewise account,
\* team, env), so two rows holding equal values under different headers
\* have the same fingerprint (the second of them in a file is dropped as a
\* duplicate of the first).
Priority ==
  [date |-> <<"date", "usage_start_time", "usage_date">>,
   service |-> <<"service", "service_description", "sku_description">>,
   cost_usd |-> <<"cost_usd", "cost", "cost_amount">>,
   account_or_project |->
     <<"account_id", "project_id", "billing_account_id">>,
   team |-> <<"team", "owner", "department">>,
   env |-> <<"env", "environment", "stage">>]

\* the first non-empty value of the row among the columns of field f
FirstNonEmpty(row, f) ==
  LET filled == {k \in 1..3 : /\ Priority[f][k] \in DOMAIN row
                              /\ row[Priority[f][k]] # ""}
  IN  IF filled = {} THEN Undefined
      ELSE Some(row[Priority[f][CHOOSE k \in filled :
                                  \A j \in filled : k <= j]])

SameValues(r1, r2) ==
  \A f \in DOMAIN Priority : FirstNonEmpty(r1, f) = FirstNonEmpty(r2, f)

C18_ColumnPriority ==
  \A u \in Uploaders :
    (up[u].pc # "new" /\ up[u].file.present) =>
      /\ \A j \in 1..Len(up[u].validRows) :
           LET vr == up[u].validRows[j]
               row == RowsOf(u)[vr.src]
           IN  \A f \in DOMAIN Priority :
                  IF FirstNonEmpty(row, f) = Undefined
                    THEN Missing(vr.raw[f])
                    ELSE vr.raw[f] = FirstNonEmpty(row, f)
      /\ \A i, k \in 1..NumRows(u) :
           (/\ i < k
            /\ ~LacksRequired(u, i) /\ ~LacksRequired(u, k)
            /\ SameValues(RowsOf(u)[i], RowsOf(u)[k]))
           => /\ KeyOfRow(u, i) = KeyOfRow(u, k)
              /\ \A j \in 1..Len(up[u].validRows) :
                   up[u].validRows[j].src # k

\* ----------------------------------------------------------------------
\* C19: every persisted record has team "unassigned" when its row has no
\* team value, env "prod" when it has no env value, account_or_project
\* "unknown" when it has no account or project value, and otherwise the
\* row's own value.
OwnOrDefault(row, f, default) ==
  IF FirstNonEmpty(row, f) = Undefined THEN default
  ELSE FirstNonEmpty(row, f)[1]

C19_Defaults ==
  /\ \A u \in Uploaders : \A j \in 1..Len(up[u].validRows) :
       LET vr == up[u].validRows[j]
           row == RowsOf(u)[vr.src]
       IN  /\ vr.team = OwnOrDefault(row, "team", "unassigned")
           /\ vr.env = OwnOrDefault(row, "env", "prod")
           /\ vr.account_or_project
                = OwnOrDefault(row, "account_or_project", "unknown")
  /\ \A r \in store :
       \E j \in 1..Len(up[r.by].validRows) :
          LET vr == up[r.by].validRows[j]
          IN  /\ vr.dedupe_key = r.dedupe_key
              /\ r.team = vr.team
              /\ r.env = vr.env
              /\ r.account_or_project = vr.account_or_project

\* records are persisted of a row with an empty team column and an owner,
\* and of a row with no env and no account column at all
C19_Witness ==
  \E r \in store :
     LET row == RowsOf(r.by)[1]
     IN  /\ Succeeded(r.by)
         /\ NumRows(r.by) = 1
         /\ "team" \in DOMAIN row /\ row["team"] = ""
         /\ "owner" \in DOMAIN row /\ r.team = row["owner"]
         /\ r.env = "prod"
         /\ r.account_or_project = "unknown"

\* ----------------------------------------------------------------------
\* C20: in every reachable state every persisted spend record has a cost
\* greater than or equal to zero.
C20_CostNonNegative == \A r \in store : r.cost_usd >= 0

\* ------------------------------------------------------------------ C21

\* the records a step adds to the SpendRecord table
AddedNow == store' \ store

\* C21: The set of persisted spend records only grows.  No step of the
\* portal (upload, spend query, savings create, update and delete, PR
\* note, login, logout, session lookup) removes a persisted record or
\* changes one of its fields, and every record that appears is written by
\* the bulk insert of an upload whose handler is at its createMany.
C21_StoreOnlyGrows ==
  [][/\ store \subseteq store'
     /\ \A r \in AddedNow :
          /\ r.by \in Uploaders
          /\ up[r.by].pc = "insert"
          /\ \E i \in 1..Len(up[r.by].validRows) :
               r.dedupe_key = up[r.by].validRows[i].dedupe_key]_vars

\* records are stored and ideas exist, and a logout has been answered with
\* the SpendRecord table as it was when the request arrived
C21_Witness ==
  /\ store # {}
  /\ rq.pc = "done"
  /\ rq.before.store = store
  /\ rq.endpoint = "logout"
  /\ ideas # {}

\* ------------------------------------------------------------------ C22

\* the handler of the request has answered after reading its input
Handled(e) == rq.pc = "done" /\ rq.endpoint = e /\ rq.input # Undefined

\* a required field of the body is absent or empty
LacksField(body) ==
  \E f \in {"title", "service", "owner"} : body[f] \in {Undefined, Some("")}

\* C22: A savings POST whose body lacks title, service or owner is
\* answered 400 "Missing required fields"; a savings PUT or DELETE without
\* an id is answered 400 "Missing ID"; in these cases the SavingIdea table
\* is as it was when the request arrived.  A POST that is answered 201 and
\* whose body has no status has added exactly one idea, with status
\* PROPOSED.
C22_SavingsInput ==
  /\ Handled("savingsPOST") /\ LacksField(rq.input[1])
       => /\ rq.resp = [status |-> 400,
                        error |-> <<"Missing", "required", "fields">>]
          /\ ideas = rq.before.ideas
  /\ Handled("savingsPUT") /\ rq.input[1].id = Undefined
       => /\ rq.resp = [status |-> 400, error |-> <<"Missing", "ID">>]
          /\ ideas = rq.before.ideas
  /\ Handled("savingsDELETE") /\ rq.input[1] = Undefined
       => /\ rq.resp = [status |-> 400, error |-> <<"Missing", "ID">>]
          /\ ideas = rq.before.ideas
  /\ Handled("savingsPOST") /\ ~LacksField(rq.input[1])
       /\ rq.resp.status = 201 /\ rq.input[1].status = Undefined
       => /\ rq.before.ideas \subseteq ideas
          /\ Cardinality(ideas \ rq.before.ideas) = 1
          /\ \A x \in ideas \ rq.before.ideas :
               /\ x.status = "PROPOSED"
               /\ x.title = rq.input[1].title[1]
               /\ x.owner = rq.input[1].owner[1]

\* an ADMIN has created an idea without naming a status, beside an idea
\* that was there before
C22_Witness ==
  /\ Handled("savingsPOST")
  /\ rq.resp.status = 201
  /\ rq.input[1].status = Undefined
  /\ rq.before.ideas # {}
  /\ \E x \in ideas \ rq.before.ideas : x.status = "PROPOSED"

\* ------------------------------------------------------------------ C23

\* the id of the body, as a JSON value, is absent or a blank string
BlankId(body) ==
  \/ body.id = Undefined
  \/ \A i \in 1..Len(body.id[1]) : body.id[1][i] = " "

\* the ideas whose id the body names, blanks around it set aside
Named(body) ==
  {x \in rq.before.ideas :
     \E i \in 1..Len(body.id[1]) : body.id[1][i] = Digits[x.id]}

\* C23: The PR-helper endpoint answers 400 "Missing ID" to a body without
\* an id or with a blank id, and has not queried the store then; otherwise
\* it answers 404 "Saving idea not found" when no idea has the id and 200
\* with a markdown note written from the idea that has it (500 when the
\* lookup throws).  In every case the SavingIdea table is as it was.
C23_PrHelper ==
  Handled("prHelper") =>
    LET body == rq.input[1]
    IN  /\ ideas = rq.before.ideas
        /\ store = rq.before.store
        /\ IF BlankId(body)
             THEN /\ rq.resp = [status |-> 400,
                                error |-> <<"Missing", "ID">>]
                  /\ ~rq.queried
           ELSE /\ rq.queried
                /\ rq.resp.status \in {200, 404, 500}
                /\ rq.resp.status = 404 =>
                     /\ Named(body) = {}
                     /\ rq.resp.error = <<"Saving", "idea", "not", "found">>
                /\ rq.resp.status = 200 =>
                     \E x \in Named(body) :
                        rq.resp.markdown =
                          <<x.title, x.service, x.owner, x.status>>
                /\ rq.resp.status = 500 =>
                     rq.resp.error = <<"Failed", "to", "generate", "PR",
                                       "note">>

\* a note has been written for an idea named with blanks around its id,
\* while another idea exists
C23_Witness ==
  /\ Handled("prHelper")
  /\ rq.resp.status = 200
  /\ rq.input[1].id = Some(<<" ", "1", " ">>)
  /\ Cardinality(ideas) = 2

\* ------------------------------------------------------------------ C30

\* the cookie of the request is the id of an existing user
CookieOfUser(cookie) ==
  cookie # Undefined /\ \E x \in Users : x.id = cookie[1]

\* the body of a login names a user and the password of that user
GoodCredentials(body) ==
  /\ body.email # Undefined
  /\ body.password # Undefined
  /\ \E a \in Accounts :
       a.email = body.email[1] /\ a.password = body.password[1]

\* this step is the answer to a login, to a logout
AnswersLogin == rq.pc = "handler" /\ rq.endpoint = "login" /\ rq'.pc = "done"
AnswersLogout ==
  rq.pc = "handler" /\ rq.endpoint = "logout" /\ rq'.pc = "done"

\* C30: A request gets past requireAuth or requireRoles only when its
\* session cookie is the id of an existing user.  A login with the address
\* and password of a user is answered 200 and sets the browser's cookie to
\* that user's id (unless the lookup throws: 500, cookie as it was); any
\* other login is answered 400 or 401 and leaves the cookie as it was; a
\* logout removes the cookie; nothing else changes the cookie.  So from a
\* logout to the next successful login every request of the browser to an
\* endpoint behind requireAuth or requireRoles is answered 401.
C30_Session ==
  /\ [](/\ rq.pc \in {"handler", "done"}
        /\ rq.endpoint \in AuthOnly \cup Protected
        /\ (rq.pc = "done" => rq.resp.status # 401)
        => CookieOfUser(rq.cookie))
  /\ [](/\ rq.pc = "done"
        /\ rq.endpoint \in AuthOnly \cup Protected
        /\ ~CookieOfUser(rq.cookie)
        => rq.resp = [status |-> 401, error |-> <<"Unauthorized">>])
  /\ [][AnswersLogin =>
          LET body == rq'.input[1]
          IN  IF GoodCredentials(body) /\ rq'.resp.status # 500
                THEN /\ rq'.resp.status = 200
                     /\ \E a \in Accounts :
                          /\ a.email = body.email[1]
                          /\ browser'.cookie = Some(a.id)
              ELSE /\ rq'.resp.status \in {400, 401, 500}
                   /\ browser'.cookie = browser.cookie]_vars
  /\ [][AnswersLogout => browser'.cookie = Undefined]_vars
  /\ [][browser'.cookie # browser.cookie
          => AnswersLogout \/ (AnswersLogin /\ rq'.resp.status = 200)]_vars

\* after a login as analyst and a logout, the browser's request to the
\* savings list has been answered 401
C30_Witness ==
  /\ rq.pc = "done"
  /\ rq.endpoint = "savingsGET"
  /\ rq.cookie = Undefined
  /\ rq.resp.status = 401
  /\ \E x \in ideas : x.status = "PROPOSED"

\* ------------------------------------------------------------------ C29

\* the page is shown and no redirect is under way
Settled == browser.pc = "shown"

C27_InsertedIsAdded ==
  \A u \in Uploaders :
    Succeeded(u) => up[u].resp.inserted = Cardinality(AddedBy(u))

\* ------------------------------------------------------------------ C28

\* row i of the file of request u was kept: it is the source of a valid row
Kept(u, i) == \E j \in 1..Len(up[u].validRows) : up[u].validRows[j].src = i

\* C28: Deduplication never discards a row that carries different data.
\* A row that passes validation and is dropped as an in-batch duplicate has
\* the raw date, account/project, service, team, env and cost of the row
\* that was kept for its fingerprint, and a row the store rejects has those
\* of the record stored under its fingerprint.
C28_SameKeySameData ==
  \A u \in Uploaders :
    (up[u].pc # "new" /\ up[u].file.present) =>
      /\ \A k \in 1..NumRows(u) :
           (~LacksRequired(u, k) /\ ~Kept(u, k)) =>
              \E i \in 1..(k - 1) :
                 /\ Kept(u, i)
                 /\ KeyOfRow(u, i) = KeyOfRow(u, k)
                 /\ Normalize(RowsOf(u)[i]) = Normalize(RowsOf(u)[k])
      /\ \A j \in 1..Len(up[u].validRows), r \in store :
           r.dedupe_key = up[u].validRows[j].dedupe_key
              => r.raw = up[u].validRows[j].raw /\ r.cloud = up[u].cloud

\* ------------------------------------------------------------------ C25

\* C25: On SIGINT or SIGTERM the process exits only after the $disconnect
\* of the client that the handler of a signal called has returned or
\* thrown; the exit code is 0; and once a signal has arrived the process
\* does exit, also when $disconnect throws.
C25_Shutdown ==
  /\ [](proc.exited =>
          /\ proc.by \in DOMAIN proc.handlers
          /\ proc.handlers[proc.by].pc = "settled"
          /\ proc.handlers[proc.by].signal \in {"SIGINT", "SIGTERM"}
          /\ proc.code = 0)
  /\ (proc.handlers # <<>>) ~> proc.exited

\* the process has exited after a SIGTERM whose $disconnect threw, while a
\* call of withRetry was waiting to reconnect
C25_Witness ==
  /\ proc.exited
  /\ proc.handlers[proc.by].signal = "SIGTERM"
  /\ ~proc.handlers[proc.by].ok
  /\ wr.pc = "reconnect"

\* ------------------------------------------------------------------ C26

\* the calls that wait for a health check another call started
Joined == {r \in DOMAIN sub : sub[r].pc = "joined"}

\* this step is the end of the health check that q started
SettlesNow(q) == sub[q].pc = "checking" /\ sub'[q].pc # "checking"

\* C26: At most one health-check query is in flight at any time.  The
\* cached promise is set exactly while a check runs; every call of
\* checkConnection made meanwhile waits for that check, and when the check
\* ends all of them get its outcome and the cache is cleared; a call made
\* with the flag down and no check running starts a new check.
C26_OneHealthCheck ==
  /\ [](/\ Cardinality(Checking) <= 1
        /\ connectionCheckPromise.pending <=> Checking # {}
        /\ \A r \in Joined :
             /\ connectionCheckPromise.pending
             /\ sub[r].on = connectionCheckPromise.owner
             /\ sub[r].on \in Checking)
  /\ [][\A q \in DOMAIN sub :
          SettlesNow(q) =>
            /\ ~connectionCheckPromise'.pending
            /\ sub'[q].got = (IF isConnected' THEN "up" ELSE "down")
            /\ \A r \in Joined :
                 /\ sub'[r].pc = "operation"
                 /\ sub'[r].got = sub'[q].got]_vars
  /\ [][\A r \in DOMAIN sub :
          (/\ sub[r].pc = "start" /\ sub'[r].pc # "start"
           /\ ~isConnected /\ ~connectionCheckPromise.pending)
          => /\ sub'[r].pc = "checking"
             /\ connectionCheckPromise' = [pending |-> TRUE, owner |-> r]]_vars

\* on its second attempt a call runs a health check that it started, and
\* two other calls wait for it
C26_Witness ==
  \E q \in DOMAIN sub :
    /\ sub[q].pc = "checking"
    /\ sub[q].attempt = 2
    /\ Cardinality(Joined) = 2

\* ------------------------------------------------------------------ C24

\* call q has thrown out of withRetry
Failed(q) == sub[q].pc = "thrown"

\* no sub-query has failed because another one disconnected the client
\* under its query
NoFailureByPeer ==
  \A q \in DOMAIN sub : Failed(q) => sub[q].cause = "database"

\* C24: The sub-queries of one dashboard request share no mutable state
\* and do not affect one another: no step of a sub-query writes the
\* connection flag or the cached health check that the others read, and the
\* retry handling of one sub-query (flag down, $disconnect, $connect) never
\* makes another sub-query, in flight at the time, fail.
C24_Independent ==
  /\ [][/\ isConnected' = isConnected
        /\ connectionCheckPromise' = connectionCheckPromise]_vars
  /\ []NoFailureByPeer

====
